---- MODULE Spec2Model ----
(***************************************************************************)
(* A model of the Vertex container lifecycle engine.                       *)
(*                                                                         *)
(*  - services/instance/instance.go : the Instance supervisor (Start,      *)
(*    Stop, Delete, setStatus), the module-level catalog (Install,         *)
(*    Instantiate, Add, Delete) and the two runners it embeds              *)
(*    (startManually / startWithDocker).                                   *)
(*  - repository/runner_docker.go : RunnerDockerRepository, the Docker     *)
(*    runner that reports through a setStatus callback.  The callback is   *)
(*    bound to Instance.setStatus.                                         *)
(*  - repository/instance.go : SaveEnv / LoadEnv on the .env file.         *)
(*                                                                         *)
(* Handlers run on their own goroutine (one per API call) and take no      *)
(* lock, so a handler is a sequence of steps, one per access to shared     *)
(* state, and steps of different calls interleave.                         *)
(***************************************************************************)
EXTENDS Integers, Sequences, FiniteSets, TLC

\* ------------------------------------------------------------------ bounds
MaxUUID == 2            \* containers ever installed
MaxCmd == 2             \* exec.Cmd objects ever created
MaxCalls == 3           \* API calls made in SpecLifecycle
MaxCatalogCalls == 4    \* API calls made in SpecCatalog
LifecycleThreads == 2   \* concurrent API calls in SpecLifecycle
CatalogThreads == 1     \* concurrent API calls in SpecCatalog
MaxSequentialCalls == 4 \* API calls made in SpecSequential
SequentialThreads == 1  \* concurrent API calls in SpecSequential

UUIDs == 1..MaxUUID
Cmds == 1..MaxCmd
nil == 0

\* ------------------------------------------------------------ status names
StatusOff == "off"
StatusRunning == "running"
StatusError == "error"
InstanceStatusBuilding == "building"
InstanceStatusError == "error"
InstanceStatusRunning == "running"

VARIABLES
    all,        \* instances.all: the set of registered uuids
    dirs,       \* uuids whose directory <root>/<uuid>/ exists on disk
    nextUUID,   \* the next fresh uuid that uuid.New() hands out
    method,     \* per uuid: "native", "docker" (startWithDocker) or "runner" (RunnerDockerRepository)
    Status,     \* per uuid: Instance.Status
    cmd,        \* per uuid: Instance.cmd, nil or a Cmd
    procs,      \* per Cmd: "none", "new", "failed", "alive", "signalled", "exited", "reaped"
    docker,     \* per uuid: the Docker container VERTEX_CONTAINER_<uuid>: "absent", "created", "running"
    events,     \* per uuid: the status events sent to the listeners, in order
    changes,    \* number of EventChange events sent to the catalog listeners
    thr,        \* per API goroutine: the call it runs and where it is
    reaper,     \* per started Cmd: the goroutine that waits for the process
    calls,      \* API calls still to be made (the model's budget)
    sinceStop,  \* per uuid: a Stop was accepted and no Start was accepted after it
    crashed,    \* the program died of a panic outside a handler
    envFile,    \* the content of <uuid>/.env, or NoFile
    Entries,    \* Instance.EnvVariables.Entries
    envErr,     \* whether the last LoadEnv returned an error
    envHist,    \* which of SaveEnv / LoadEnv ran last
    saved,      \* the map given to the last successful SaveEnv
    redirects,      \* ProxyFSAdapter.redirects: redirect id -> redirect
    redirectsFile,  \* the content of redirects.json, or NoFile
    rlocks,         \* number of holders of redirectsMutex.RLock
    pthr,           \* per proxy API goroutine: the call it runs and where it is
    pcalls,         \* proxy API calls still to be made (the model's budget)
    instances,      \* InstanceFSRepository.instances: uuid -> instance
    rdirs,          \* uuids whose directory exists under storage.PathInstances
    listeners,      \* InstanceFSRepository.listeners: the registered channels
    stopped,        \* channels whose subscriber no longer receives
    got,            \* per channel: the events its subscriber received, in order
    observed,       \* instances on which Register(r.observer) was called
    rthr,           \* per repository caller: the call it runs and where it is
    rcalls,         \* repository calls still to be made (the model's budget)
    ver,            \* per uuid: number of mutations of its registry entry so far
    serial,         \* number of repository calls made so far
    cService,       \* Container.Service of one container
    available,      \* Container.ServiceUpdate.Available
    serviceFile,    \* the content of <uuid>/.vertex/service.yml, or NoFile
    lastCall,       \* the last service call: its argument, result and the state before it
    dockerPorts,    \* Methods.Docker.Ports: the advertised ports, in order
    envDefinitions, \* Instance.EnvDefinitions, in manifest order
    envVariables,   \* Instance.EnvVariables: name -> value
    portSpecs,      \* the specs Start hands to nat.ParsePortSpecs, or NotComputed
    fileState,      \* what os.ReadFile of redirects.json meets at proxy startup
    adapter,        \* whether NewProxyFSAdapter has returned the adapter
    logged,         \* whether NewProxyFSAdapter logged an error
    root,           \* whether os.ReadDir of the storage root succeeds
    entries,        \* the entries of the storage root, in ReadDir's order
    scanPos,        \* the entry reload looks at next; 0 before ReadDir
    aborted,        \* log.Fatal ended the process
    settings,       \* inst.InstanceSettings, the in-memory settings
    settingsFile,   \* the persisted settings document
    lastSet         \* the last setter call: its argument, result and the settings before

lifeVars == <<all, dirs, nextUUID, method, Status, cmd, procs, docker, events, changes,
              thr, reaper, calls, sinceStop, crashed>>
envVars == <<envFile, Entries, envErr, envHist, saved>>
proxyVars == <<redirects, redirectsFile, rlocks, pthr, pcalls>>
repoVars == <<instances, rdirs, listeners, stopped, got, observed, rthr, rcalls, ver, serial>>
serviceVars == <<cService, available, serviceFile, lastCall>>
portVars == <<dockerPorts, envDefinitions, envVariables, portSpecs>>
startupVars == <<fileState, adapter, logged>>
scanVars == <<root, entries, scanPos, aborted>>
settingsVars == <<settings, settingsFile, lastSet>>
vars == <<lifeVars, envVars, proxyVars, repoVars, serviceVars, portVars, startupVars, scanVars, settingsVars>>
notLife == <<envVars, proxyVars, repoVars, serviceVars, portVars, startupVars, scanVars, settingsVars>>
notEnv == <<lifeVars, proxyVars, repoVars, serviceVars, portVars, startupVars, scanVars, settingsVars>>
notProxy == <<lifeVars, envVars, repoVars, serviceVars, portVars, startupVars, scanVars, settingsVars>>
notRepo == <<lifeVars, envVars, proxyVars, serviceVars, portVars, startupVars, scanVars, settingsVars>>
notService == <<lifeVars, envVars, proxyVars, repoVars, portVars, startupVars, scanVars, settingsVars>>
notPort == <<lifeVars, envVars, proxyVars, repoVars, serviceVars, startupVars, scanVars, settingsVars>>
notStartup == <<lifeVars, envVars, repoVars, serviceVars, portVars, scanVars, settingsVars>>
notScan == <<lifeVars, envVars, proxyVars, serviceVars, portVars, startupVars, settingsVars>>
notSettings == <<lifeVars, envVars, proxyVars, repoVars, serviceVars, portVars, startupVars, scanVars>>

\* ------------------------------------------------------------- goroutines
IdleThread ==
    [op |-> "idle", u |-> 0, pc |-> "idle", entry |-> "none", set |-> "none",
     after |-> "none", err |-> FALSE, res |-> "none", rstatus |-> "none",
     dentry |-> "none"]

NoReaper == [pc |-> "none", u |-> 0, target |-> nil]

Threads == DOMAIN thr

Free(t) == thr[t].pc \in {"idle", "end"}

\* The preconditions the state machine puts on Start and Stop.
StartAllowed(s) == s \notin {"building", "starting", "running", "stopping"}
StopAllowed(s) == s \notin {"off", "building"}

\* Thread t moves on to pc p.
Goto(t, p) == [thr EXCEPT ![t].pc = p]

\* Thread t calls setStatus(s) and afterwards continues at p ("return": the
\* function returns, with its pending error if any).
CallSetStatus(t, s, p, e) ==
    [thr EXCEPT ![t].pc = "setStatus", ![t].set = s, ![t].after = p, ![t].err = e]

\* Thread t's call ends with result r while the instance's status is st.
Return(t, r, st) ==
    [thr EXCEPT ![t].pc = "end", ![t].res = r, ![t].rstatus = st,
                ![t].set = "none", ![t].after = "none", ![t].err = FALSE]

\* Instance.Stop returns (error e) to its caller: the API call, or Instance.Delete.
StopReturn(t, e, st) ==
    IF thr[t].op = "Delete"
    THEN IF e THEN Return(t, "err", st) ELSE Goto(t, "Delete_remove")
    ELSE Return(t, IF e THEN "err" ELSE "ok", st)

\* ------------------------------------------------------- Instance.setStatus
setStatus_write(t) ==
    /\ ~crashed
    /\ thr[t].pc = "setStatus"
    /\ Status' = [Status EXCEPT ![thr[t].u] = thr[t].set]
    /\ thr' = Goto(t, "publish")
    /\ UNCHANGED notLife
    /\ UNCHANGED <<all, dirs, nextUUID, method, cmd, procs, docker, events, changes,
                   reaper, calls, sinceStop, crashed>>

setStatus_publish(t) ==
    /\ ~crashed
    /\ thr[t].pc = "publish"
    /\ LET u == thr[t].u IN
       /\ events' = [events EXCEPT ![u] =
                        Append(@, [status |-> thr[t].set, afterStop |-> sinceStop[u]])]
       /\ thr' = IF thr[t].after # "return" THEN Goto(t, thr[t].after)
                 ELSE IF thr[t].op = "Start"
                      THEN Return(t, IF thr[t].err THEN "err" ELSE "ok", Status[u])
                      ELSE StopReturn(t, thr[t].err, Status[u])
    /\ UNCHANGED notLife
    /\ UNCHANGED <<all, dirs, nextUUID, method, Status, cmd, procs, docker, changes,
                   reaper, calls, sinceStop, crashed>>

\* ------------------------------------------------------------ Start(uuid)
\* Start: Get(uuid), then Instance.Start dispatches on UseDocker.
Start(t, u) ==
    /\ ~crashed
    /\ Free(t)
    /\ calls > 0
    /\ u < nextUUID
    /\ method[u] = "native" =>
          Cardinality({c \in Cmds : procs[c] # "none"})
            + Cardinality({x \in Threads : thr[x].pc \in {"startManually_stat", "startManually_cmd"}})
            < MaxCmd
    /\ calls' = calls - 1
    /\ IF u \notin all
       THEN /\ thr' = [thr EXCEPT ![t] = [IdleThread EXCEPT !.op = "Start", !.u = u,
                          !.pc = "end", !.entry = "none", !.res = "err"]]
            /\ UNCHANGED sinceStop
       ELSE /\ thr' = [thr EXCEPT ![t] = [IdleThread EXCEPT !.op = "Start", !.u = u,
                          !.entry = Status[u],
                          !.pc = CASE method[u] = "native" -> "startManually_stat"
                                   [] method[u] = "docker" -> "startWithDocker_init"
                                   [] OTHER -> "setStatus",
                          !.set = IF method[u] = "runner" THEN InstanceStatusBuilding ELSE "none",
                          !.after = IF method[u] = "runner" THEN "runner_build" ELSE "none"]]
            /\ sinceStop' = IF StartAllowed(Status[u])
                            THEN [sinceStop EXCEPT ![u] = FALSE] ELSE sinceStop
    /\ UNCHANGED notLife
    /\ UNCHANGED <<all, dirs, nextUUID, method, Status, cmd, procs, docker, events, changes,
                   reaper, crashed>>

\* A startManually that marks the container in error when the executable is
\* not found.
startManually_statSetsError(t) ==
    /\ ~crashed
    /\ thr[t].pc = "startManually_stat"
    /\ \E found \in BOOLEAN :
          thr' = IF found THEN Goto(t, "startManually_cmd")
                 ELSE CallSetStatus(t, StatusError, "return", TRUE)
    /\ UNCHANGED notLife
    /\ UNCHANGED <<all, dirs, nextUUID, method, Status, cmd, procs, docker, events, changes,
                   reaper, calls, sinceStop, crashed>>

\* startManually, lines 160-183: a non-nil cmd is only logged; the executable
\* is looked up on disk.
startManually_stat(t) ==
    /\ ~crashed
    /\ thr[t].pc = "startManually_stat"
    /\ \E found \in BOOLEAN :
          thr' = IF found THEN Goto(t, "startManually_cmd")
                 ELSE Return(t, "err", Status[thr[t].u])
    /\ UNCHANGED notLife
    /\ UNCHANGED <<all, dirs, nextUUID, method, Status, cmd, procs, docker, events, changes,
                   reaper, calls, sinceStop, crashed>>

\* startManually, line 185: i.cmd = exec.Command(command); then the pipes and
\* the log pumps, which touch only the new Cmd; then setStatus(running), line 244.
startManually_cmd(t) ==
    /\ ~crashed
    /\ thr[t].pc = "startManually_cmd"
    /\ \E c \in Cmds :
          /\ procs[c] = "none"
          /\ \A d \in Cmds : d < c => procs[d] # "none"
          /\ procs' = [procs EXCEPT ![c] = "new"]
          /\ cmd' = [cmd EXCEPT ![thr[t].u] = c]
    /\ thr' = CallSetStatus(t, StatusRunning, "startManually_start", FALSE)
    /\ UNCHANGED notLife
    /\ UNCHANGED <<all, dirs, nextUUID, method, Status, docker, events, changes,
                   reaper, calls, sinceStop, crashed>>

\* startManually, lines 246-259: i.cmd.Start() on whatever i.cmd holds now; on
\* success the reaper goroutine is spawned and Start returns nil.
startManually_start(t) ==
    /\ ~crashed
    /\ thr[t].pc = "startManually_start"
    /\ LET u == thr[t].u
           c == cmd[u]
       IN  IF c = nil
           THEN \* i.cmd.Start() on a nil *exec.Cmd
                /\ thr' = Return(t, "panic", Status[u])
                /\ UNCHANGED <<procs, reaper>>
           ELSE IF procs[c] # "new"
           THEN \* exec: already started
                /\ thr' = Return(t, "err", Status[u])
                /\ UNCHANGED <<procs, reaper>>
           ELSE \E ok \in BOOLEAN :
                  IF ok
                  THEN /\ procs' = [procs EXCEPT ![c] = "alive"]
                       /\ reaper' = [reaper EXCEPT ![c] = [pc |-> "spawned", u |-> u, target |-> nil]]
                       /\ thr' = Return(t, "ok", Status[u])
                  ELSE /\ procs' = [procs EXCEPT ![c] = "failed"]
                       /\ thr' = Return(t, "err", Status[u])
                       /\ UNCHANGED reaper
    /\ UNCHANGED notLife
    /\ UNCHANGED <<all, dirs, nextUUID, method, Status, cmd, docker, events, changes,
                   calls, sinceStop, crashed>>

\* ------------------------------------------- the reaper goroutine (251-257)
\* err := i.cmd.Wait(): the goroutine reads i.cmd when it first runs.
reaper_read(c) ==
    /\ ~crashed
    /\ reaper[c].pc = "spawned"
    /\ IF cmd[reaper[c].u] = nil
       THEN \* a nil *exec.Cmd is dereferenced outside any handler: the program dies
            /\ crashed' = TRUE
            /\ reaper' = [reaper EXCEPT ![c].pc = "done"]
       ELSE /\ reaper' = [reaper EXCEPT ![c].pc = "wait", ![c].target = cmd[reaper[c].u]]
            /\ UNCHANGED crashed
    /\ UNCHANGED notLife
    /\ UNCHANGED <<all, dirs, nextUUID, method, Status, cmd, procs, docker, events, changes,
                   thr, calls, sinceStop>>

\* Wait returns when the process has exited, or at once with an error when the
\* Cmd was never started or was already waited for.
reaper_wait(c) ==
    /\ ~crashed
    /\ reaper[c].pc = "wait"
    /\ LET d == reaper[c].target IN
       /\ procs[d] \in {"exited", "new", "failed", "reaped"}
       /\ procs' = IF procs[d] = "exited" THEN [procs EXCEPT ![d] = "reaped"] ELSE procs
    /\ reaper' = [reaper EXCEPT ![c].pc = "setStatus"]
    /\ UNCHANGED notLife
    /\ UNCHANGED <<all, dirs, nextUUID, method, Status, cmd, docker, events, changes,
                   thr, calls, sinceStop, crashed>>

\* i.setStatus(StatusOff), line 256.
reaper_setStatus(c) ==
    /\ ~crashed
    /\ reaper[c].pc = "setStatus"
    /\ Status' = [Status EXCEPT ![reaper[c].u] = StatusOff]
    /\ reaper' = [reaper EXCEPT ![c].pc = "publish"]
    /\ UNCHANGED notLife
    /\ UNCHANGED <<all, dirs, nextUUID, method, cmd, procs, docker, events, changes,
                   thr, calls, sinceStop, crashed>>

reaper_publish(c) ==
    /\ ~crashed
    /\ reaper[c].pc = "publish"
    /\ LET u == reaper[c].u IN
       events' = [events EXCEPT ![u] =
                     Append(@, [status |-> StatusOff, afterStop |-> sinceStop[u]])]
    /\ reaper' = [reaper EXCEPT ![c].pc = "done"]
    /\ UNCHANGED notLife
    /\ UNCHANGED <<all, dirs, nextUUID, method, Status, cmd, procs, docker, changes,
                   thr, calls, sinceStop, crashed>>

\* The operating system: a running process exits, of its own or after the signal.
ProcessExit(c) ==
    /\ ~crashed
    /\ procs[c] \in {"alive", "signalled"}
    /\ procs' = [procs EXCEPT ![c] = "exited"]
    /\ UNCHANGED notLife
    /\ UNCHANGED <<all, dirs, nextUUID, method, Status, cmd, docker, events, changes,
                   thr, reaper, calls, sinceStop, crashed>>

\* ------------------------------------------------------------- Stop(uuid)
\* Stop: Get(uuid), then Instance.Stop dispatches on UseDocker.
Stop(t, u) ==
    /\ ~crashed
    /\ Free(t)
    /\ calls > 0
    /\ u < nextUUID
    /\ calls' = calls - 1
    /\ IF u \notin all
       THEN /\ thr' = [thr EXCEPT ![t] = [IdleThread EXCEPT !.op = "Stop", !.u = u,
                          !.pc = "end", !.entry = "none", !.res = "err"]]
            /\ UNCHANGED sinceStop
       ELSE /\ thr' = [thr EXCEPT ![t] = [IdleThread EXCEPT !.op = "Stop", !.u = u,
                          !.entry = Status[u],
                          !.pc = IF method[u] = "native" THEN "stopManually_signal"
                                 ELSE "stopWithDocker_getID"]]
            /\ sinceStop' = IF StopAllowed(Status[u])
                            THEN [sinceStop EXCEPT ![u] = TRUE] ELSE sinceStop
    /\ UNCHANGED notLife
    /\ UNCHANGED <<all, dirs, nextUUID, method, Status, cmd, procs, docker, events, changes,
                   reaper, crashed>>

\* stopManually, line 364: i.cmd.Process.Signal(os.Interrupt).  A nil cmd or a
\* nil Process is dereferenced (the handler panics); a process already waited
\* for gives an error, after which Instance.Stop still calls setStatus(off).
stopManually_signal(t) ==
    /\ ~crashed
    /\ thr[t].pc = "stopManually_signal"
    /\ LET u == thr[t].u
           c == cmd[u]
       IN  IF c = nil \/ procs[c] \in {"new", "failed"}
           THEN /\ thr' = Return(t, "panic", Status[u])
                /\ UNCHANGED procs
           ELSE IF procs[c] = "reaped"
           THEN /\ thr' = CallSetStatus(t, StatusOff, "return", TRUE)
                /\ UNCHANGED procs
           ELSE /\ procs' = IF procs[c] = "alive" THEN [procs EXCEPT ![c] = "signalled"] ELSE procs
                /\ thr' = Goto(t, "stopManually_clear")
    /\ UNCHANGED notLife
    /\ UNCHANGED <<all, dirs, nextUUID, method, Status, cmd, docker, events, changes,
                   reaper, calls, sinceStop, crashed>>

\* stopManually, line 371: i.cmd = nil; then Instance.Stop, line 345: setStatus(off).
stopManually_clear(t) ==
    /\ ~crashed
    /\ thr[t].pc = "stopManually_clear"
    /\ cmd' = [cmd EXCEPT ![thr[t].u] = nil]
    /\ thr' = CallSetStatus(t, StatusOff, "return", FALSE)
    /\ UNCHANGED notLife
    /\ UNCHANGED <<all, dirs, nextUUID, method, Status, procs, docker, events, changes,
                   reaper, calls, sinceStop, crashed>>


\* stopWithDocker, lines 350-358 (and RunnerDockerRepository.Stop, 141-144):
\* the Docker client, then the container id looked up by name.
stopWithDocker_getID(t) ==
    /\ ~crashed
    /\ thr[t].pc = "stopWithDocker_getID"
    /\ \E ok \in BOOLEAN :
          thr' = IF ok /\ docker[thr[t].u] # "absent"
                 THEN Goto(t, "stopWithDocker_ContainerStop")
                 ELSE CallSetStatus(t, StatusOff, "return", TRUE)
    /\ UNCHANGED notLife
    /\ UNCHANGED <<all, dirs, nextUUID, method, Status, cmd, procs, docker, events, changes,
                   reaper, calls, sinceStop, crashed>>

\* stopWithDocker, line 360 (RunnerDockerRepository.Stop, 146): ContainerStop;
\* then Instance.Stop, line 345: setStatus(off) whatever the error.
stopWithDocker_ContainerStop(t) ==
    /\ ~crashed
    /\ thr[t].pc = "stopWithDocker_ContainerStop"
    /\ LET u == thr[t].u IN
       \E ok \in BOOLEAN :
          IF ok /\ docker[u] # "absent"
          THEN /\ docker' = [docker EXCEPT ![u] = "created"]
               /\ thr' = CallSetStatus(t, StatusOff, "return", FALSE)
          ELSE /\ thr' = CallSetStatus(t, StatusOff, "return", TRUE)
               /\ UNCHANGED docker
    /\ UNCHANGED notLife
    /\ UNCHANGED <<all, dirs, nextUUID, method, Status, cmd, procs, events, changes,
                   reaper, calls, sinceStop, crashed>>

\* ---------------------------------------------------------- startWithDocker
\* lines 263-284: the Docker client and the tar of the directory; then
\* setStatus(running), before the image is built.
startWithDocker_init(t) ==
    /\ ~crashed
    /\ thr[t].pc = "startWithDocker_init"
    /\ \E ok \in BOOLEAN :
          thr' = IF ok THEN CallSetStatus(t, StatusRunning, "startWithDocker_ImageBuild", FALSE)
                 ELSE Return(t, "err", Status[thr[t].u])
    /\ UNCHANGED notLife
    /\ UNCHANGED <<all, dirs, nextUUID, method, Status, cmd, procs, docker, events, changes,
                   reaper, calls, sinceStop, crashed>>

\* lines 286-302: ImageBuild; on failure setStatus(off) and return the error.
startWithDocker_ImageBuild(t) ==
    /\ ~crashed
    /\ thr[t].pc = "startWithDocker_ImageBuild"
    /\ \E ok \in BOOLEAN :
          thr' = IF ok THEN Goto(t, "startWithDocker_getID")
                 ELSE CallSetStatus(t, StatusOff, "return", TRUE)
    /\ UNCHANGED notLife
    /\ UNCHANGED <<all, dirs, nextUUID, method, Status, cmd, procs, docker, events, changes,
                   reaper, calls, sinceStop, crashed>>

\* lines 304-318: dockerContainerID; not found leads to ContainerCreate.
startWithDocker_getID(t) ==
    /\ ~crashed
    /\ thr[t].pc = "startWithDocker_getID"
    /\ \E ok \in BOOLEAN :
          thr' = IF ~ok THEN CallSetStatus(t, StatusOff, "return", TRUE)
                 ELSE IF docker[thr[t].u] = "absent" THEN Goto(t, "startWithDocker_ContainerCreate")
                 ELSE Goto(t, "startWithDocker_ContainerStart")
    /\ UNCHANGED notLife
    /\ UNCHANGED <<all, dirs, nextUUID, method, Status, cmd, procs, docker, events, changes,
                   reaper, calls, sinceStop, crashed>>

\* lines 307-314: ContainerCreate under the container's name (the daemon
\* refuses a name already in use).
startWithDocker_ContainerCreate(t) ==
    /\ ~crashed
    /\ thr[t].pc = "startWithDocker_ContainerCreate"
    /\ LET u == thr[t].u IN
       \E ok \in BOOLEAN :
          IF ok /\ docker[u] = "absent"
          THEN /\ docker' = [docker EXCEPT ![u] = "created"]
               /\ thr' = Goto(t, "startWithDocker_ContainerStart")
          ELSE /\ thr' = CallSetStatus(t, StatusOff, "return", TRUE)
               /\ UNCHANGED docker
    /\ UNCHANGED notLife
    /\ UNCHANGED <<all, dirs, nextUUID, method, Status, cmd, procs, events, changes,
                   reaper, calls, sinceStop, crashed>>

\* lines 322-327: ContainerStart; on failure setStatus(off).
startWithDocker_ContainerStart(t) ==
    /\ ~crashed
    /\ thr[t].pc = "startWithDocker_ContainerStart"
    /\ LET u == thr[t].u IN
       \E ok \in BOOLEAN :
          IF ok /\ docker[u] # "absent"
          THEN /\ docker' = [docker EXCEPT ![u] = "running"]
               /\ thr' = Return(t, "ok", Status[u])
          ELSE /\ thr' = CallSetStatus(t, StatusOff, "return", TRUE)
               /\ UNCHANGED docker
    /\ UNCHANGED notLife
    /\ UNCHANGED <<all, dirs, nextUUID, method, Status, cmd, procs, events, changes,
                   reaper, calls, sinceStop, crashed>>

\* ------------------------------------------- RunnerDockerRepository.Start
\* (line 57, setStatus(building), is where Start sends the thread.)
\* lines 61-74: build from the Dockerfile, pull the image, or no Docker
\* method; on failure onErr and return, with no setStatus.
runner_build(t) ==
    /\ ~crashed
    /\ thr[t].pc = "runner_build"
    /\ \E ok \in BOOLEAN :
          thr' = IF ok THEN Goto(t, "runner_getID")
                 ELSE Return(t, "err", Status[thr[t].u])
    /\ UNCHANGED notLife
    /\ UNCHANGED <<all, dirs, nextUUID, method, Status, cmd, procs, docker, events, changes,
                   reaper, calls, sinceStop, crashed>>

\* lines 77-78 and 125-127: getID; an error other than not-found is returned.
runner_getID(t) ==
    /\ ~crashed
    /\ thr[t].pc = "runner_getID"
    /\ \E ok \in BOOLEAN :
          thr' = IF ~ok THEN Return(t, "err", Status[thr[t].u])
                 ELSE IF docker[thr[t].u] = "absent" THEN Goto(t, "runner_createContainer")
                 ELSE Goto(t, "runner_ContainerStart")
    /\ UNCHANGED notLife
    /\ UNCHANGED <<all, dirs, nextUUID, method, Status, cmd, procs, docker, events, changes,
                   reaper, calls, sinceStop, crashed>>

\* lines 83-124: port specs, volume paths, createContainer; each failure is
\* returned, with no setStatus.
runner_createContainer(t) ==
    /\ ~crashed
    /\ thr[t].pc = "runner_createContainer"
    /\ LET u == thr[t].u IN
       \E ok \in BOOLEAN :
          IF ok /\ docker[u] = "absent"
          THEN /\ docker' = [docker EXCEPT ![u] = "created"]
               /\ thr' = Goto(t, "runner_ContainerStart")
          ELSE /\ thr' = Return(t, "err", Status[u])
               /\ UNCHANGED docker
    /\ UNCHANGED notLife
    /\ UNCHANGED <<all, dirs, nextUUID, method, Status, cmd, procs, events, changes,
                   reaper, calls, sinceStop, crashed>>

\* lines 130-137: ContainerStart; setStatus(error) on failure, setStatus(running)
\* on success.
runner_ContainerStart(t) ==
    /\ ~crashed
    /\ thr[t].pc = "runner_ContainerStart"
    /\ LET u == thr[t].u IN
       \E ok \in BOOLEAN :
          IF ok /\ docker[u] # "absent"
          THEN /\ docker' = [docker EXCEPT ![u] = "running"]
               /\ thr' = CallSetStatus(t, InstanceStatusRunning, "return", FALSE)
          ELSE /\ thr' = CallSetStatus(t, InstanceStatusError, "return", TRUE)
               /\ UNCHANGED docker
    /\ UNCHANGED notLife
    /\ UNCHANGED <<all, dirs, nextUUID, method, Status, cmd, procs, events, changes,
                   reaper, calls, sinceStop, crashed>>

\* ----------------------------------------------------------- Delete(uuid)
\* Delete, lines 494-500: Get(uuid), then Instance.Delete.
Delete(t, u) ==
    /\ ~crashed
    /\ Free(t)
    /\ calls > 0
    /\ u < nextUUID
    /\ calls' = calls - 1
    /\ thr' = [thr EXCEPT ![t] =
                  IF u \notin all
                  THEN [IdleThread EXCEPT !.op = "Delete", !.u = u, !.pc = "end", !.res = "err"]
                  ELSE [IdleThread EXCEPT !.op = "Delete", !.u = u, !.entry = Status[u],
                           !.dentry = docker[u],
                           !.pc = IF method[u] = "native" THEN "Delete_IsRunning"
                                  ELSE "Delete_dockerDeleteContainer"]]
    /\ UNCHANGED notLife
    /\ UNCHANGED <<all, dirs, nextUUID, method, Status, cmd, procs, docker, events, changes,
                   reaper, sinceStop, crashed>>

\* Instance.Delete, lines 404-414, dockerDeleteContainer, lines 109-116 (and
\* alike RunnerDockerRepository.Delete): the id by name, an absent container
\* being errContainerNotFound (result "notfound"), then ContainerRemove without
\* Force, which the daemon refuses for a running container.
Delete_dockerDeleteContainer(t) ==
    /\ ~crashed
    /\ thr[t].pc = "Delete_dockerDeleteContainer"
    /\ LET u == thr[t].u IN
       \E ok \in BOOLEAN :
          IF ok /\ docker[u] = "created"
          THEN /\ docker' = [docker EXCEPT ![u] = "absent"]
               /\ thr' = Goto(t, "Delete_IsRunning")
          ELSE /\ thr' = Return(t, IF ok /\ docker[u] = "absent" THEN "notfound" ELSE "err",
                               Status[u])
               /\ UNCHANGED docker
    /\ UNCHANGED notLife
    /\ UNCHANGED <<all, dirs, nextUUID, method, Status, cmd, procs, events, changes,
                   reaper, calls, sinceStop, crashed>>

\* Instance.Delete, lines 416-421: if i.IsRunning() then i.Stop().
Delete_IsRunning(t) ==
    /\ ~crashed
    /\ thr[t].pc = "Delete_IsRunning"
    /\ LET u == thr[t].u IN
       thr' = IF Status[u] # StatusRunning THEN Goto(t, "Delete_remove")
              ELSE IF method[u] = "native" THEN Goto(t, "stopManually_signal")
              ELSE Goto(t, "stopWithDocker_getID")
    /\ UNCHANGED notLife
    /\ UNCHANGED <<all, dirs, nextUUID, method, Status, cmd, procs, docker, events, changes,
                   reaper, calls, sinceStop, crashed>>

\* Instance.Delete, lines 423-427: os.RemoveAll of the directory.
Delete_remove(t) ==
    /\ ~crashed
    /\ thr[t].pc = "Delete_remove"
    /\ \E ok \in BOOLEAN :
          IF ok
          THEN /\ dirs' = dirs \ {thr[t].u}
               /\ thr' = Goto(t, "Delete_unregister")
          ELSE /\ thr' = Return(t, "err", Status[thr[t].u])
               /\ UNCHANGED dirs
    /\ UNCHANGED notLife
    /\ UNCHANGED <<all, nextUUID, method, Status, cmd, procs, docker, events, changes,
                   reaper, calls, sinceStop, crashed>>

\* Delete, lines 505-513: delete(instances.all, uuid) and the change event.
Delete_unregister(t) ==
    /\ ~crashed
    /\ thr[t].pc = "Delete_unregister"
    /\ all' = all \ {thr[t].u}
    /\ changes' = changes + 1
    /\ thr' = Return(t, "ok", Status[thr[t].u])
    /\ UNCHANGED notLife
    /\ UNCHANGED <<dirs, nextUUID, method, Status, cmd, procs, docker, events,
                   reaper, calls, sinceStop, crashed>>

\* ---------------------------------------------------------------- Install
\* Install, lines 561-600.  proto: whether the source is marketplace:,
\* localstorage: or git:.  fetched: whether download / symlink succeeded (a
\* failure is taken to leave nothing at basePath).  loaded: whether
\* Instantiate (CreateFromDisk: manifest, metadata, .env) succeeded.  A failing
\* WriteMetadata changes no state: the instance is already registered.
Install(proto, useDocker, fetched, loaded) ==
    /\ ~crashed
    /\ calls > 0
    /\ nextUUID <= MaxUUID
    /\ calls' = calls - 1
    /\ LET u == nextUUID IN
       /\ nextUUID' = u + 1
       /\ dirs' = IF proto /\ fetched THEN dirs \cup {u} ELSE dirs
       /\ IF proto /\ fetched /\ loaded
          THEN /\ all' = all \cup {u}
               /\ changes' = changes + 1
               /\ method' = [method EXCEPT ![u] = IF useDocker THEN "docker" ELSE "native"]
          ELSE UNCHANGED <<all, changes, method>>
    /\ UNCHANGED notLife
    /\ UNCHANGED <<Status, cmd, procs, docker, events, thr, reaper, sinceStop, crashed>>

\* ------------------------------------------------------------------- .env
\* Text is a sequence of characters; a map is a function from keys to values.
EQ == "="
LF == "\n"
CR == "\r"

MaxValueLen == 1        \* length of an environment value

KeyNames == {<<"A">>, <<"B">>}
ValueChars == {"1", EQ, CR}
ValueTexts == UNION {[1..n -> ValueChars] : n \in 0..MaxValueLen}
EnvMaps == UNION {[K -> ValueTexts] : K \in SUBSET KeyNames}

NoFile == <<"NoFile">>
EmptyMap == <<>>

\* The orders in which a range over the map may visit the keys.
Orders(m) ==
    {p \in [1..Cardinality(DOMAIN m) -> DOMAIN m] :
        \A i, j \in DOMAIN p : i # j => p[i] # p[j]}

\* SaveEnv, lines 180-185: strings.Join({key, value}, "=") + "\n" per entry.
RECURSIVE WriteEntries(_, _)
WriteEntries(m, p) ==
    IF p = <<>> THEN <<>>
    ELSE Head(p) \o <<EQ>> \o m[Head(p)] \o <<LF>> \o WriteEntries(m, Tail(p))

\* SaveEnv, line 175: the file is opened O_WRONLY|O_CREATE, so the bytes are
\* written from offset 0 over the old content, and what lies beyond stays.
OpenAndWrite(old, new) ==
    IF old = NoFile THEN new
    ELSE new \o SubSeq(old, Len(new) + 1, Len(old))

\* bufio.ScanLines: a line ends at "\n", and one trailing "\r" is dropped.
DropCR(s) == IF s # <<>> /\ s[Len(s)] = CR THEN SubSeq(s, 1, Len(s) - 1) ELSE s

\* The position of the first c in s, or 0.
RECURSIVE IndexFrom(_, _, _)
IndexFrom(s, c, i) ==
    IF i > Len(s) THEN 0 ELSE IF s[i] = c THEN i ELSE IndexFrom(s, c, i + 1)

\* LoadEnv, lines 204-205: the lines bufio.Scanner yields.
RECURSIVE ScanLines(_)
ScanLines(s) ==
    IF s = <<>> THEN <<>>
    ELSE LET i == IndexFrom(s, LF, 1) IN
         IF i = 0 THEN <<DropCR(s)>>
         ELSE <<DropCR(SubSeq(s, 1, i - 1))>> \o ScanLines(SubSeq(s, i + 1, Len(s)))

\* strings.Split(line, "=").
RECURSIVE Split(_)
Split(s) ==
    LET i == IndexFrom(s, EQ, 1) IN
    IF i = 0 THEN <<s>>
    ELSE <<SubSeq(s, 1, i - 1)>> \o Split(SubSeq(s, i + 1, Len(s)))

\* LoadEnv, lines 205-212: each line sets Entries[line[0]] = line[1]; a line
\* with no "=" ends the load with an error, the earlier entries kept.
RECURSIVE LoadLines(_, _)
LoadLines(lines, m) ==
    IF lines = <<>> THEN [entries |-> m, err |-> FALSE]
    ELSE LET line == Split(Head(lines)) IN
         IF Len(line) < 2 THEN [entries |-> m, err |-> TRUE]
         ELSE LoadLines(Tail(lines), (line[1] :> line[2]) @@ m)

\* SaveEnv, lines 172-190, with the map visited in order p.  (An OpenFile
\* error returns before anything changes.)
SaveEnv(m, p) ==
    /\ envFile' = OpenAndWrite(envFile, WriteEntries(m, p))
    /\ Entries' = m
    /\ saved' = m
    /\ envHist' = "saved"
    /\ UNCHANGED envErr
    /\ UNCHANGED notEnv

\* LoadEnv, lines 192-215, on the live instance, or (fresh) on an instance
\* just created, whose Entries are empty.
LoadEnv(fresh) ==
    /\ LET base == IF fresh THEN EmptyMap ELSE Entries
           r == IF envFile = NoFile THEN [entries |-> base, err |-> FALSE]
                ELSE LoadLines(ScanLines(envFile), base)
       IN  /\ Entries' = r.entries
           /\ envErr' = r.err
    /\ envHist' = IF fresh /\ envHist = "saved" THEN "roundtrip" ELSE "loaded"
    /\ UNCHANGED <<envFile, saved>>
    /\ UNCHANGED notEnv

\* Instantiate, lines 520-535, of the container whose .env this is:
\* CreateFromDisk (430-467) reads the manifest and the metadata (ok: whether
\* they load), makes the instance with empty env and loads the .env into it; on
\* any error Instantiate returns it and nothing is registered.
Instantiate(u, ok) ==
    /\ u \notin all
    /\ IF ok
       THEN LET r == IF envFile = NoFile THEN [entries |-> EmptyMap, err |-> FALSE]
                     ELSE LoadLines(ScanLines(envFile), EmptyMap)
            IN  /\ Entries' = r.entries
                /\ envErr' = r.err
                /\ all' = IF r.err THEN all ELSE all \cup {u}
                /\ changes' = IF r.err THEN changes ELSE changes + 1
                /\ envHist' = "instantiated"
       ELSE /\ envHist' = "failed"
            /\ UNCHANGED <<Entries, envErr, all, changes>>
    /\ UNCHANGED <<envFile, saved>>
    /\ UNCHANGED <<dirs, nextUUID, method, Status, cmd, procs, docker, events,
                   thr, reaper, calls, sinceStop, crashed>>
    /\ UNCHANGED <<proxyVars, repoVars, serviceVars, portVars, startupVars, scanVars,
                   settingsVars>>

\* A .env written by hand: a good line, then a line with no "=".
HandWrittenEnv == <<"A", EQ, "1", LF, "X", LF>>

\* ------------------------------------------------- reverse proxy redirects
MaxRedirect == 2        \* redirect ids handed to AddRedirect
MaxProxyCalls == 3      \* API calls made in SpecProxy
ProxyThreads == 2       \* concurrent API calls in SpecProxy

RedirectIDs == 1..MaxRedirect
Hosts == {"a.test", "b.test"}
Targets == {"http://x", "http://y"}
ProxyRedirect == [Source : Hosts, Target : Targets]

\* ret is the content of the map when GetRedirects returned it, seen the
\* content its caller finds when it ranges over the value it was given.
IdleProxyThread ==
    [op |-> "idle", pc |-> "idle", id |-> 0, bytes |-> <<>>, res |-> "none",
     ret |-> <<>>, seen |-> <<>>]

\* json.MarshalIndent of the map: one object member per id, the keys sorted.
RECURSIVE MarshalFrom(_, _)
MarshalFrom(m, i) ==
    IF i > MaxRedirect THEN <<>>
    ELSE (IF i \in DOMAIN m THEN <<[id |-> i, Source |-> m[i].Source, Target |-> m[i].Target]>>
          ELSE <<>>) \o MarshalFrom(m, i + 1)

MarshalIndent(m) == MarshalFrom(m, 1)

\* GetRedirectByHost, lines 75-85: the redirects a lookup of host may return
\* (the range visits the map in no fixed order); none means nil.
GetRedirectByHost(host) ==
    {redirects[i] : i \in {j \in DOMAIN redirects : redirects[j].Source = host}}

\* An AddRedirect that assigns the entry without waiting for the write lock.
AddRedirectUnlocked(t, id, redirect) ==
    /\ pcalls > 0
    /\ pthr[t].pc \in {"idle", "end"}
    /\ redirects' = (id :> redirect) @@ redirects
    /\ pthr' = [pthr EXCEPT ![t] = [IdleProxyThread EXCEPT !.op = "AddRedirect",
                                       !.id = id, !.pc = "write"]]
    /\ pcalls' = pcalls - 1
    /\ UNCHANGED <<redirectsFile, rlocks>>
    /\ UNCHANGED notProxy

\* AddRedirect, lines 87-92: a.redirects[id] = redirect under the write lock;
\* write() follows.
AddRedirect(t, id, redirect) ==
    /\ pcalls > 0
    /\ pthr[t].pc \in {"idle", "end"}
    /\ rlocks = 0
    /\ redirects' = (id :> redirect) @@ redirects
    /\ pthr' = [pthr EXCEPT ![t] = [IdleProxyThread EXCEPT !.op = "AddRedirect",
                                       !.id = id, !.pc = "write"]]
    /\ pcalls' = pcalls - 1
    /\ UNCHANGED <<redirectsFile, rlocks>>
    /\ UNCHANGED notProxy

\* RemoveRedirect, lines 96-101: delete(a.redirects, id) under the write lock;
\* write() follows.
RemoveRedirect(t, id) ==
    /\ pcalls > 0
    /\ pthr[t].pc \in {"idle", "end"}
    /\ rlocks = 0
    /\ redirects' = [i \in DOMAIN redirects \ {id} |-> redirects[i]]
    /\ pthr' = [pthr EXCEPT ![t] = [IdleProxyThread EXCEPT !.op = "RemoveRedirect",
                                       !.id = id, !.pc = "write"]]
    /\ pcalls' = pcalls - 1
    /\ UNCHANGED <<redirectsFile, rlocks>>
    /\ UNCHANGED notProxy

\* write, lines 126-135: RLock, then json.MarshalIndent(a.redirects).  (The
\* map always marshals.)
write_MarshalIndent(t) ==
    /\ pthr[t].pc = "write"
    /\ rlocks' = rlocks + 1
    /\ pthr' = [pthr EXCEPT ![t].bytes = MarshalIndent(redirects), ![t].pc = "WriteFile"]
    /\ UNCHANGED <<redirects, redirectsFile, pcalls>>
    /\ UNCHANGED notProxy

\* write, line 137: os.WriteFile replaces the file content, or fails; the
\* deferred RUnlock runs and the call returns.
write_WriteFile(t) ==
    /\ pthr[t].pc = "WriteFile"
    /\ \E ok \in BOOLEAN :
          /\ redirectsFile' = IF ok THEN pthr[t].bytes ELSE redirectsFile
          /\ pthr' = [pthr EXCEPT ![t].pc = "end", ![t].res = IF ok THEN "ok" ELSE "err"]
    /\ rlocks' = rlocks - 1
    /\ UNCHANGED <<redirects, pcalls>>
    /\ UNCHANGED notProxy

\* GetRedirects, lines 68-73: RLock, return a.redirects, RUnlock.  The value
\* returned is the map itself (a Go map is a reference), not a copy of it.
GetRedirects(t) ==
    /\ pcalls > 0
    /\ pthr[t].pc \in {"idle", "end"}
    /\ pthr' = [pthr EXCEPT ![t] = [IdleProxyThread EXCEPT !.op = "GetRedirects",
                                       !.ret = redirects, !.pc = "range"]]
    /\ pcalls' = pcalls - 1
    /\ UNCHANGED <<redirects, redirectsFile, rlocks>>
    /\ UNCHANGED notProxy

\* The caller of GetRedirects reads the value it was given, holding no lock:
\* it reads the adapter's map as it is now.
GetRedirects_range(t) ==
    /\ pthr[t].pc = "range"
    /\ pthr' = [pthr EXCEPT ![t].seen = redirects, ![t].pc = "end", ![t].res = "ok"]
    /\ UNCHANGED <<redirects, redirectsFile, rlocks, pcalls>>
    /\ UNCHANGED notProxy

\* NewProxyFSAdapter, lines 53-63, with no redirects.json: the map is empty.
EmptyProxy ==
    /\ redirects = <<>>
    /\ redirectsFile = NoFile
    /\ rlocks = 0
    /\ pthr = [t \in 1..ProxyThreads |-> IdleProxyThread]
    /\ pcalls = 0

\* ------------------------------------------------- reverse proxy startup
MaxMembers == 2         \* members of the JSON object in redirects.json

\* A JSON number where the redirect's target, a string, is expected.
JSONNumber == "<number>"
\* Text that is not JSON (the file breaks off, or a brace is missing).
Garbage == [id |-> 0, Source |-> "<garbage>", Target |-> "<garbage>"]
Members ==
    [id : RedirectIDs, Source : Hosts, Target : Targets \cup {JSONNumber}] \cup {Garbage}
RedirectsFiles == UNION {[1..k -> Members] : k \in 0..MaxMembers}

\* json.Unmarshal, line 118, on the members 1..k of a well-formed object: each
\* member is stored under its id, a later member of the same id replacing an
\* earlier one; a target of the wrong JSON type leaves the field at its zero
\* value.
RECURSIVE DecodeMembers(_, _, _)
DecodeMembers(file, into, k) ==
    IF k = 0 THEN into
    ELSE (file[k].id :> [Source |-> file[k].Source,
                         Target |-> IF file[k].Target = JSONNumber THEN ""
                                    ELSE file[k].Target])
         @@ DecodeMembers(file, into, k - 1)

Mistyped(file) == {i \in 1..Len(file) : file[i].Target = JSONNumber}

\* json.Unmarshal(file, &a.redirects), line 118: its possible outcomes.  Text
\* that is not JSON is refused before anything is stored.  On a value of the
\* wrong type Unmarshal skips the field, goes on as best it can and returns
\* the earliest such error; the members after it may or may not be decoded.
Unmarshal(file, into) ==
    IF \E i \in 1..Len(file) : file[i] = Garbage
    THEN {[map |-> into, err |-> TRUE]}
    ELSE IF Mistyped(file) = {}
    THEN {[map |-> DecodeMembers(file, into, Len(file)), err |-> FALSE]}
    ELSE LET first == CHOOSE i \in Mistyped(file) : \A j \in Mistyped(file) : i <= j
         IN  {[map |-> DecodeMembers(file, into, k), err |-> TRUE] : k \in first..Len(file)}

\* read, lines 105-124: its possible outcomes on the adapter's empty map.
read ==
    IF fileState = "missing" THEN {[map |-> <<>>, err |-> "NotFound"]}
    ELSE IF fileState = "unreadable" THEN {[map |-> <<>>, err |-> "FailedToRead"]}
    ELSE {[map |-> o.map, err |-> IF o.err THEN "FailedToDecode" ELSE "nil"] :
            o \in Unmarshal(redirectsFile, <<>>)}

\* NewProxyFSAdapter, lines 53-65: the adapter starts with an empty map, reads
\* the file, logs a decode error only, and is returned.
NewProxyFSAdapter ==
    /\ ~adapter
    /\ \E o \in read :
          /\ redirects' = o.map
          /\ logged' = (o.err = "FailedToDecode")
    /\ adapter' = TRUE
    /\ UNCHANGED <<redirectsFile, rlocks, pthr, pcalls, fileState>>
    /\ UNCHANGED notStartup

\* The process ends; the files stay as they are for the next start.
ProxyExit ==
    /\ adapter
    /\ adapter' = FALSE
    /\ logged' = FALSE
    /\ redirects' = <<>>
    /\ UNCHANGED <<redirectsFile, rlocks, pthr, pcalls, fileState>>
    /\ UNCHANGED notStartup

\* The adapter is built and serving.
AdapterBuilt ==
    /\ fileState = "present"
    /\ adapter = TRUE
    /\ logged = FALSE

\* ------------------------------------------- the instance repository
MaxInstance == 2        \* instance values handed to Set
MaxRepoCalls == 3       \* repository calls made in SpecRepository
RepoThreads == 2        \* concurrent repository calls in SpecRepository
MaxListener == 2        \* channels that may be registered

InstanceValues == 1..MaxInstance
ListenerIDs == 1..MaxListener
EventChange == "change"

IdleRepoThread ==
    [op |-> "idle", pc |-> "idle", u |-> 0, c |-> 0, res |-> "none",
     existed |-> FALSE, pending |-> {}, targets |-> {}, myver |-> 0, serial |-> 0]

RepoFree(t) == rthr[t].pc \in {"idle", "end"}

\* Exists, lines 87-89.
Exists(u) == u \in DOMAIN instances

\* Whether the mutation thread t made shows in the registry, or a later
\* mutation of the same uuid has replaced it.
Visible(t) ==
    LET u == rthr[t].u IN
    \/ ver[u] > rthr[t].myver
    \/ IF rthr[t].op = "Delete" THEN ~Exists(u)
       ELSE Exists(u) /\ instances[u] = rthr[t].c

\* Set without the check of Exists: a duplicate replaces the entry.
Set_Unchecked(t, u, c) ==
    /\ rcalls > 0
    /\ RepoFree(t)
    /\ rcalls' = rcalls - 1
    /\ serial' = serial + 1
    /\ rthr' = [rthr EXCEPT ![t] =
                   [IdleRepoThread EXCEPT !.op = "Set", !.u = u, !.c = c,
                       !.existed = Exists(u), !.myver = ver[u], !.serial = serial',
                       !.pc = "Set_assign"]]
    /\ UNCHANGED <<instances, rdirs, listeners, stopped, got, observed, ver>>
    /\ UNCHANGED notRepo

\* Set, lines 91-94: a uuid the registry holds is refused.
Repository_Set(t, u, c) ==
    /\ rcalls > 0
    /\ RepoFree(t)
    /\ rcalls' = rcalls - 1
    /\ serial' = serial + 1
    /\ rthr' = [rthr EXCEPT ![t] =
                   IF Exists(u)
                   THEN [IdleRepoThread EXCEPT !.op = "Set", !.u = u, !.c = c, !.existed = TRUE,
                            !.serial = serial', !.pc = "end", !.res = "err"]
                   ELSE [IdleRepoThread EXCEPT !.op = "Set", !.u = u, !.c = c,
                            !.myver = ver[u], !.serial = serial', !.pc = "Set_assign"]]
    /\ UNCHANGED <<instances, rdirs, listeners, stopped, got, observed, ver>>
    /\ UNCHANGED notRepo

\* Load, lines 267-288: the manifest and metadata are read from the directory
\* and a new instance is made of them; any failure returns before Set.
Load(t, u, c) ==
    /\ rcalls > 0
    /\ RepoFree(t)
    /\ rcalls' = rcalls - 1
    /\ serial' = serial + 1
    /\ \E ok \in BOOLEAN :
          rthr' = [rthr EXCEPT ![t] =
                      IF ~ok \/ u \notin rdirs
                      THEN [IdleRepoThread EXCEPT !.op = "Load", !.u = u, !.c = c,
                               !.existed = Exists(u),
                               !.serial = serial', !.pc = "end", !.res = "err"]
                      ELSE [IdleRepoThread EXCEPT !.op = "Load", !.u = u, !.c = c,
                               !.existed = Exists(u),
                               !.serial = serial', !.pc = "Load_Set"]]
    /\ UNCHANGED <<instances, rdirs, listeners, stopped, got, observed, ver>>
    /\ UNCHANGED notRepo

\* Load, lines 285-288: err = r.Set(uuid, instance).
Load_Set(t) ==
    /\ rthr[t].pc = "Load_Set"
    /\ rthr' = [rthr EXCEPT ![t].pc = IF Exists(rthr[t].u) THEN "end" ELSE "Set_assign",
                            ![t].res = IF Exists(rthr[t].u) THEN "err" ELSE "none",
                            ![t].existed = Exists(rthr[t].u),
                            ![t].myver = ver[rthr[t].u]]
    /\ UNCHANGED <<instances, rdirs, listeners, stopped, got, observed, rcalls, ver, serial>>
    /\ UNCHANGED notRepo

\* Set that notifies the listeners and leaves the assignment out.
Set_notifyOnly(t) ==
    /\ rthr[t].pc = "Set_assign"
    /\ rthr' = [rthr EXCEPT ![t].pc = "notifyListeners", ![t].myver = ver[rthr[t].u],
                            ![t].pending = listeners, ![t].targets = listeners]
    /\ UNCHANGED <<instances, ver, rdirs, listeners, stopped, got, observed, rcalls, serial>>
    /\ UNCHANGED notRepo

\* Set, line 96: r.instances[uuid] = &instance; notifyListeners starts its
\* range over r.listeners.
Set_assign(t) ==
    /\ rthr[t].pc = "Set_assign"
    /\ LET u == rthr[t].u IN
       /\ instances' = (u :> rthr[t].c) @@ instances
       /\ ver' = [ver EXCEPT ![u] = @ + 1]
       /\ rthr' = [rthr EXCEPT ![t].pc = "notifyListeners", ![t].myver = ver[u] + 1,
                               ![t].pending = listeners, ![t].targets = listeners]
    /\ UNCHANGED <<rdirs, listeners, stopped, got, observed, rcalls, serial>>
    /\ UNCHANGED notRepo

\* notifyListeners, lines 217-221: listener <- event, to one channel the range
\* has not visited yet.  The send completes when the subscriber receives.
notifyListeners_send(t, l) ==
    /\ rthr[t].pc = "notifyListeners"
    /\ l \in rthr[t].pending
    /\ l \in listeners
    /\ l \notin stopped
    /\ got' = [got EXCEPT ![l] =
                  Append(@, [Name |-> EventChange, serial |-> rthr[t].serial,
                             visible |-> Visible(t)])]
    /\ rthr' = [rthr EXCEPT ![t].pending = @ \ {l}]
    /\ UNCHANGED <<instances, rdirs, listeners, stopped, observed, rcalls, ver, serial>>
    /\ UNCHANGED notRepo

\* The range does not produce a channel that was removed before it got there.
notifyListeners_skip(t, l) ==
    /\ rthr[t].pc = "notifyListeners"
    /\ l \in rthr[t].pending
    /\ l \notin listeners
    /\ rthr' = [rthr EXCEPT ![t].pending = @ \ {l}, ![t].targets = @ \ {l}]
    /\ UNCHANGED <<instances, rdirs, listeners, stopped, got, observed, rcalls, ver, serial>>
    /\ UNCHANGED notRepo

\* The range is over.  Set, lines 101-103: instance.Register(r.observer) and
\* return nil; Delete, line 84: return nil.
notifyListeners_return(t) ==
    /\ rthr[t].pc = "notifyListeners"
    /\ rthr[t].pending = {}
    /\ observed' = IF rthr[t].op = "Delete" THEN observed ELSE observed \cup {rthr[t].c}
    /\ rthr' = [rthr EXCEPT ![t].pc = "end", ![t].res = "ok"]
    /\ UNCHANGED <<instances, rdirs, listeners, stopped, got, rcalls, ver, serial>>
    /\ UNCHANGED notRepo

\* A Delete that drops the entry from the map before it removes the directory.
Delete_EntryFirst(t, u) ==
    /\ rcalls > 0
    /\ RepoFree(t)
    /\ rcalls' = rcalls - 1
    /\ serial' = serial + 1
    /\ instances' = [v \in DOMAIN instances \ {u} |-> instances[v]]
    /\ \E ok \in BOOLEAN :
          /\ rdirs' = IF ok THEN rdirs \ {u} ELSE rdirs
          /\ rthr' = [rthr EXCEPT ![t] =
                         [IdleRepoThread EXCEPT !.op = "Delete", !.u = u, !.existed = Exists(u),
                             !.serial = serial',
                             !.pc = IF ok THEN "Delete_delete" ELSE "end",
                             !.res = IF ok THEN "none" ELSE "err"]]
    /\ UNCHANGED <<listeners, stopped, got, observed, ver>>
    /\ UNCHANGED notRepo

\* Delete, lines 72-76: os.RemoveAll of the directory; its failure returns.
Repository_Delete(t, u) ==
    /\ rcalls > 0
    /\ RepoFree(t)
    /\ rcalls' = rcalls - 1
    /\ serial' = serial + 1
    /\ \E ok \in BOOLEAN :
          /\ rdirs' = IF ok THEN rdirs \ {u} ELSE rdirs
          /\ rthr' = [rthr EXCEPT ![t] =
                         [IdleRepoThread EXCEPT !.op = "Delete", !.u = u, !.existed = Exists(u),
                             !.serial = serial',
                             !.pc = IF ok THEN "Delete_delete" ELSE "end",
                             !.res = IF ok THEN "none" ELSE "err"]]
    /\ UNCHANGED <<instances, listeners, stopped, got, observed, ver>>
    /\ UNCHANGED notRepo

\* Delete, line 78: delete(r.instances, uuid); notifyListeners starts.
Delete_delete(t) ==
    /\ rthr[t].pc = "Delete_delete"
    /\ LET u == rthr[t].u IN
       /\ instances' = [v \in DOMAIN instances \ {u} |-> instances[v]]
       /\ ver' = [ver EXCEPT ![u] = @ + 1]
       /\ rthr' = [rthr EXCEPT ![t].pc = "notifyListeners", ![t].myver = ver[u] + 1,
                               ![t].pending = listeners, ![t].targets = listeners]
    /\ UNCHANGED <<rdirs, listeners, stopped, got, observed, rcalls, serial>>
    /\ UNCHANGED notRepo

\* AddListener, lines 106-115.
AddListener(l) ==
    /\ rcalls > 0
    /\ l \notin listeners
    /\ l \notin stopped
    /\ listeners' = listeners \cup {l}
    /\ rcalls' = rcalls - 1
    /\ UNCHANGED <<instances, rdirs, stopped, got, observed, rthr, ver, serial>>
    /\ UNCHANGED notRepo

\* RemoveListener, lines 117-123.
RemoveListener(l) ==
    /\ rcalls > 0
    /\ l \in listeners
    /\ listeners' = listeners \ {l}
    /\ rcalls' = rcalls - 1
    /\ UNCHANGED <<instances, rdirs, stopped, got, observed, rthr, ver, serial>>
    /\ UNCHANGED notRepo

\* A subscriber stops receiving from its channel and leaves it registered.
SubscriberStops(l) ==
    /\ l \in listeners
    /\ l \notin stopped
    /\ stopped' = stopped \cup {l}
    /\ UNCHANGED <<instances, rdirs, listeners, got, observed, rthr, rcalls, ver, serial>>
    /\ UNCHANGED notRepo

\* NewInstanceFSRepository, lines 33-38, before reload: nothing registered.
EmptyRepo ==
    /\ instances = <<>>
    /\ rdirs = {}
    /\ listeners = {}
    /\ stopped = {}
    /\ got = [l \in ListenerIDs |-> <<>>]
    /\ observed = {}
    /\ rthr = [t \in 1..RepoThreads |-> IdleRepoThread]
    /\ rcalls = 0
    /\ ver = [u \in UUIDs |-> 0]
    /\ serial = 0

\* ------------------------------------------- the repository's startup scan
MaxEntries == 2         \* entries of the storage root

EntryNames == {"1", "2", "x"}
DirEntry == [name : EntryNames, kind : {"dir", "symlink", "file"}, loadable : BOOLEAN]
\* The names of one directory differ.
Listings ==
    {l \in UNION {[1..k -> DirEntry] : k \in 0..MaxEntries} :
        \A i, j \in 1..Len(l) : i # j => l[i].name # l[j].name}

\* uuid.Parse, line 254: the uuid a name denotes, or nil when it denotes none.
Parse(name) == IF name = "1" THEN 1 ELSE IF name = "2" THEN 2 ELSE nil

\* reload, lines 244-247.
isInstance(entry) == entry.kind \in {"dir", "symlink"}

\* reload, lines 236-239: os.ReadDir; log.Fatal when it fails.
reload_ReadDir ==
    /\ ~aborted
    /\ scanPos = 0
    /\ IF root = "readable"
       THEN scanPos' = 1 /\ UNCHANGED aborted
       ELSE aborted' = TRUE /\ UNCHANGED scanPos
    /\ UNCHANGED <<root, entries>>
    /\ UNCHANGED repoVars
    /\ UNCHANGED notScan

\* reload, lines 241-263: one turn of the loop.  A name that is no uuid and a
\* Load that fails both end in log.Fatal; Load ends with Set (lines 285-288).
reload_entry ==
    /\ ~aborted
    /\ scanPos \in 1..Len(entries)
    /\ listeners = {}
    /\ LET entry == entries[scanPos]
           id == Parse(entry.name)
       IN  IF ~isInstance(entry)
           THEN scanPos' = scanPos + 1 /\ UNCHANGED <<aborted, instances>>
           ELSE IF id = nil \/ ~entry.loadable \/ Exists(id)
           THEN aborted' = TRUE /\ UNCHANGED <<scanPos, instances>>
           ELSE /\ instances' = (id :> 1) @@ instances
                /\ scanPos' = scanPos + 1
                /\ UNCHANGED aborted
    /\ UNCHANGED <<root, entries>>
    /\ UNCHANGED <<rdirs, listeners, stopped, got, observed, rthr, rcalls, ver, serial>>
    /\ UNCHANGED notScan

\* The scan is over and the repository serves.
ScanDone ==
    /\ root = "readable"
    /\ entries = <<>>
    /\ scanPos = 1
    /\ aborted = FALSE

\* ------------------------------------------- the container service manifest
MaxVersion == 3             \* manifest versions 0..MaxVersion
MaxRevision == 2            \* distinct manifests of one version
MaxSupportedVersion == 2    \* types.MaxSupportedVersion

Services == [Version : 0..MaxVersion, Revision : 1..MaxRevision]

\* yaml.Marshal of a manifest.
Yaml(service) == <<"yaml", service.Version, service.Revision>>

PartialFile == <<"partial">>

NoCall ==
    [op |-> "none", arg |-> [Version |-> 0, Revision |-> 1], res |-> "none",
     before |-> [Version |-> 0, Revision |-> 1], fileBefore |-> NoFile]

\* ContainerServiceFSAdapter.Save, lines 108-127: MkdirAll, yaml.Marshal and
\* os.WriteFile, which replaces the content; a failure leaves the file as it
\* was or, when the write broke off, with part of the new content.
AdapterSave(service, ok) ==
    IF ok THEN {Yaml(service)} ELSE {serviceFile, PartialFile}

\* ContainerServiceService.Save, lines 57-60.
Save(service, ok, file) ==
    /\ cService' = service
    /\ file \in AdapterSave(service, ok)
    /\ serviceFile' = file

\* Update that saves whatever the version.
UpdateAnyVersion(service, ok, file) ==
    /\ Save(service, ok, file)
    /\ lastCall' = [op |-> "Update", arg |-> service, res |-> IF ok THEN "ok" ELSE "err",
                    before |-> cService, fileBefore |-> serviceFile]
    /\ UNCHANGED available
    /\ UNCHANGED notService

\* ContainerServiceService.Update, lines 36-55.
Update(service, ok, file) ==
    /\ IF service.Version <= MaxSupportedVersion
       THEN /\ Save(service, ok, file)
            /\ lastCall' = [op |-> "Update", arg |-> service,
                            res |-> IF ok THEN "ok" ELSE "err",
                            before |-> cService, fileBefore |-> serviceFile]
       ELSE /\ UNCHANGED <<cService, serviceFile>>
            /\ lastCall' = [op |-> "Update", arg |-> service, res |-> "ok",
                            before |-> cService, fileBefore |-> serviceFile]
    /\ UNCHANGED available
    /\ UNCHANGED notService

\* A CheckForUpdate that compares the versions only.
CheckForUpdateByVersion(latest) ==
    /\ available' = (latest.Version # cService.Version)
    /\ lastCall' = [op |-> "CheckForUpdate", arg |-> latest, res |-> "ok",
                    before |-> cService, fileBefore |-> serviceFile]
    /\ UNCHANGED <<cService, serviceFile>>
    /\ UNCHANGED notService

\* ContainerServiceService.CheckForUpdate, lines 26-32.
CheckForUpdate(latest) ==
    /\ available' = (latest # cService)
    /\ lastCall' = [op |-> "CheckForUpdate", arg |-> latest, res |-> "ok",
                    before |-> cService, fileBefore |-> serviceFile]
    /\ UNCHANGED <<cService, serviceFile>>
    /\ UNCHANGED notService

\* No container service in play.
EmptyService ==
    /\ cService = [Version |-> 0, Revision |-> 1]
    /\ available = FALSE
    /\ serviceFile = NoFile
    /\ lastCall = NoCall

\* ------------------------------------------- the Docker runner's port bindings
MaxPorts == 2           \* advertised ports of a manifest
MaxDefinitions == 2     \* env definitions of a manifest

COLON == ":"
SLASH == "/"

PortNumbers == {<<"8">>, <<"9">>}
Protocols == {<<"t">>}
AdvertisedPorts == PortNumbers \cup {n \o <<SLASH>> \o q : n \in PortNumbers, q \in Protocols}
EnvNames == {"PORT", "OTHER"}
HostPorts == {<<"1">>, <<"2">>}
EnvDefinition == [Name : EnvNames, Type : {"port", "string"}, Default : PortNumbers]

SeqsUpTo(S, n) == UNION {[1..k -> S] : k \in 0..n}

NotComputed == <<"NotComputed">>

\* Start, lines 89-96: the index of the first definition of type port whose
\* default is the string out, or 0.
RECURSIVE FirstPairing(_, _, _)
FirstPairing(defs, out, i) ==
    IF i > Len(defs) THEN 0
    ELSE IF defs[i].Type = "port" /\ defs[i].Default = out THEN i
    ELSE FirstPairing(defs, out, i + 1)

\* Start, lines 88-97: all, the list of "in:out" specs.
RECURSIVE PortSpecsOf(_, _, _)
PortSpecsOf(ports, defs, env) ==
    IF ports = <<>> THEN <<>>
    ELSE LET out == Head(ports)
             i == FirstPairing(defs, out, 1)
         IN  (IF i = 0 THEN <<>> ELSE <<env[defs[i].Name] \o <<COLON>> \o out>>)
             \o PortSpecsOf(Tail(ports), defs, env)

\* The text before the first c in s (all of s when there is none), and after.
Before(s, c) ==
    LET i == IndexFrom(s, c, 1) IN IF i = 0 THEN s ELSE SubSeq(s, 1, i - 1)

After(s, c) ==
    LET i == IndexFrom(s, c, 1) IN IF i = 0 THEN <<>> ELSE SubSeq(s, i + 1, Len(s))

\* nat.ParsePortSpecs, line 100: a spec "host:port" or "host:port/proto" binds
\* the container port, of protocol tcp when none is given, to the host port.
ParsePortSpec(spec) ==
    LET container == After(spec, COLON) IN
    [host |-> Before(spec, COLON),
     port |-> Before(container, SLASH),
     proto |-> IF IndexFrom(container, SLASH, 1) = 0 THEN <<"t">> ELSE After(container, SLASH)]

ParsePortSpecs(specs) == {ParsePortSpec(specs[i]) : i \in 1..Len(specs)}

\* RunnerDockerRepository.Start, lines 83-104.
Start_ports ==
    /\ portSpecs = NotComputed
    /\ portSpecs' = PortSpecsOf(dockerPorts, envDefinitions, envVariables)
    /\ UNCHANGED <<dockerPorts, envDefinitions, envVariables>>
    /\ UNCHANGED notPort

\* The next Start computes the bindings anew.
Start_return ==
    /\ portSpecs # NotComputed
    /\ portSpecs' = NotComputed
    /\ UNCHANGED <<dockerPorts, envDefinitions, envVariables>>
    /\ UNCHANGED notPort

\* No manifest in play.
EmptyPorts ==
    /\ dockerPorts = <<>>
    /\ envDefinitions = <<>>
    /\ envVariables = [n \in EnvNames |-> <<"1">>]
    /\ portSpecs = NotComputed

\* ------------------------------------------------ the instance settings
\* The values the setters are called with; "nil" is the unset pointer.
LaunchValues == {"true", "false"}
DisplayNames == {"", "name"}
DatabaseValues == {"none", "db"}
VersionValues == {"latest", "v1"}
TagValues == {"none", "tag"}

InstanceSettings ==
    [LaunchOnStartup : LaunchValues \cup {"nil"}, DisplayName : DisplayNames,
     Databases : DatabaseValues, Version : VersionValues \cup {"nil"}, Tags : TagValues]

DefaultSettings ==
    [LaunchOnStartup |-> "nil", DisplayName |-> "", Databases |-> "none",
     Version |-> "nil", Tags |-> "none"]

\* The JSON document of the settings: every field, in the order of the struct.
MarshalSettings(x) ==
    <<"json", x.LaunchOnStartup, x.DisplayName, x.Databases, x.Version, x.Tags>>

PartialDocument == <<"partial">>

NoSet == [op |-> "none", arg |-> "", res |-> "none", before |-> DefaultSettings]

\* adapter.Save(inst.UUID, settings): the whole document replaces the file; a
\* failure leaves the file as it was or with part of the new document.
SettingsAdapterSave(x, ok) ==
    IF ok THEN {MarshalSettings(x)} ELSE {settingsFile, PartialDocument}

\* A setter: the in-memory field is assigned, then the settings as they now are
\* are handed to adapter.Save, whose error is returned.
Setter(op, value, new, ok) ==
    /\ settings' = new
    /\ settingsFile' \in SettingsAdapterSave(new, ok)
    /\ lastSet' = [op |-> op, arg |-> value, res |-> IF ok THEN "ok" ELSE "err",
                   before |-> settings]
    /\ UNCHANGED notSettings

\* SetLaunchOnStartup, lines 35-38.
SetLaunchOnStartup(value, ok) ==
    Setter("SetLaunchOnStartup", value, [settings EXCEPT !.LaunchOnStartup = value], ok)

\* SetDisplayName, lines 40-43.
SetDisplayName(value, ok) ==
    Setter("SetDisplayName", value, [settings EXCEPT !.DisplayName = value], ok)

\* SetDatabases, lines 45-48.
SetDatabases(databases, ok) ==
    Setter("SetDatabases", databases, [settings EXCEPT !.Databases = databases], ok)

\* SetVersion, lines 50-53.
SetVersion(value, ok) ==
    Setter("SetVersion", value, [settings EXCEPT !.Version = value], ok)

\* A SetTags that persists the settings before it assigns the tags.
SetTagsAfterSave(tags, ok) ==
    /\ settings' = [settings EXCEPT !.Tags = tags]
    /\ settingsFile' \in SettingsAdapterSave(settings, ok)
    /\ lastSet' = [op |-> "SetTags", arg |-> tags, res |-> IF ok THEN "ok" ELSE "err",
                   before |-> settings]
    /\ UNCHANGED notSettings

\* SetTags, lines 55-58.
SetTags(tags, ok) ==
    Setter("SetTags", tags, [settings EXCEPT !.Tags = tags], ok)

\* No settings in play.
EmptySettings ==
    /\ settings = DefaultSettings
    /\ settingsFile = NoFile
    /\ lastSet = NoSet

\* ------------------------------------------------------------------ specs
EmptyEnv ==
    /\ envFile = NoFile
    /\ Entries = EmptyMap
    /\ envErr = FALSE
    /\ envHist = "init"
    /\ saved = EmptyMap

\* The instance fields as CreateFromDisk leaves them (lines 455-463), no
\* process, no Docker container, no call made.
FreshLife(T, n) ==
    /\ Status = [u \in UUIDs |-> StatusOff]
    /\ cmd = [u \in UUIDs |-> nil]
    /\ procs = [c \in Cmds |-> "none"]
    /\ docker = [u \in UUIDs |-> "absent"]
    /\ events = [u \in UUIDs |-> <<>>]
    /\ changes = 0
    /\ thr = [t \in 1..T |-> IdleThread]
    /\ reaper = [c \in Cmds |-> NoReaper]
    /\ calls = n
    /\ sinceStop = [u \in UUIDs |-> FALSE]
    /\ crashed = FALSE

\* SpecLifecycle: one installed container, of any of the three kinds, and
\* concurrent Start and Stop calls on it.
InitLifecycle ==
    /\ all = {1}
    /\ dirs = {1}
    /\ nextUUID = 2
    /\ method \in {[u \in UUIDs |-> m] : m \in {"native", "docker", "runner"}}
    /\ FreshLife(LifecycleThreads, MaxCalls)
    /\ EmptyEnv
    /\ EmptyProxy
    /\ EmptyRepo
    /\ EmptyService
    /\ EmptyPorts
    /\ AdapterBuilt
    /\ ScanDone
    /\ EmptySettings

NextLifecycle ==
    \/ \E t \in Threads, u \in UUIDs : Start(t, u)
    \/ \E t \in Threads, u \in UUIDs : Stop(t, u)
    \/ \E t \in Threads : setStatus_write(t)
    \/ \E t \in Threads : setStatus_publish(t)
    \/ \E t \in Threads : startManually_stat(t)
    \/ \E t \in Threads : startManually_cmd(t)
    \/ \E t \in Threads : startManually_start(t)
    \/ \E t \in Threads : stopManually_signal(t)
    \/ \E t \in Threads : stopManually_clear(t)
    \/ \E t \in Threads : stopWithDocker_getID(t)
    \/ \E t \in Threads : stopWithDocker_ContainerStop(t)
    \/ \E t \in Threads : startWithDocker_init(t)
    \/ \E t \in Threads : startWithDocker_ImageBuild(t)
    \/ \E t \in Threads : startWithDocker_getID(t)
    \/ \E t \in Threads : startWithDocker_ContainerCreate(t)
    \/ \E t \in Threads : startWithDocker_ContainerStart(t)
    \/ \E t \in Threads : runner_build(t)
    \/ \E t \in Threads : runner_getID(t)
    \/ \E t \in Threads : runner_createContainer(t)
    \/ \E t \in Threads : runner_ContainerStart(t)
    \/ \E c \in Cmds : reaper_read(c)
    \/ \E c \in Cmds : reaper_wait(c)
    \/ \E c \in Cmds : reaper_setStatus(c)
    \/ \E c \in Cmds : reaper_publish(c)
    \/ \E c \in Cmds : ProcessExit(c)

SpecLifecycle == InitLifecycle /\ [][NextLifecycle]_vars

\* SpecSequential: the same container and calls, one call at a time.
InitSequential ==
    /\ all = {1}
    /\ dirs = {1}
    /\ nextUUID = 2
    /\ method \in {[u \in UUIDs |-> m] : m \in {"native", "docker", "runner"}}
    /\ FreshLife(SequentialThreads, MaxSequentialCalls)
    /\ EmptyEnv
    /\ EmptyProxy
    /\ EmptyRepo
    /\ EmptyService
    /\ EmptyPorts
    /\ AdapterBuilt
    /\ ScanDone
    /\ EmptySettings

SpecSequential == InitSequential /\ [][NextLifecycle]_vars

\* The steps of the call thread t is in, and of the goroutine waiting for
\* process c: the scheduler runs each of them, once it can run, in the end.
LifecycleStep(t) ==
    \/ setStatus_write(t)
    \/ setStatus_publish(t)
    \/ startManually_stat(t)
    \/ startManually_cmd(t)
    \/ startManually_start(t)
    \/ stopManually_signal(t)
    \/ stopManually_clear(t)
    \/ stopWithDocker_getID(t)
    \/ stopWithDocker_ContainerStop(t)
    \/ startWithDocker_init(t)
    \/ startWithDocker_ImageBuild(t)
    \/ startWithDocker_getID(t)
    \/ startWithDocker_ContainerCreate(t)
    \/ startWithDocker_ContainerStart(t)
    \/ runner_build(t)
    \/ runner_getID(t)
    \/ runner_createContainer(t)
    \/ runner_ContainerStart(t)

ReaperStep(c) ==
    \/ reaper_read(c)
    \/ reaper_wait(c)
    \/ reaper_setStatus(c)
    \/ reaper_publish(c)

\* A process that was sent the interrupt signal exits.
SignalledExit(c) == procs[c] = "signalled" /\ ProcessExit(c)

\* FairSequential: SpecSequential under fair scheduling of the calls in
\* progress, of the reaper goroutines and of the signalled processes.  No new
\* call is ever forced.
FairSequential ==
    /\ SpecSequential
    /\ \A t \in 1..SequentialThreads : WF_vars(LifecycleStep(t))
    /\ \A c \in Cmds : WF_vars(ReaperStep(c))
    /\ \A c \in Cmds : WF_vars(SignalledExit(c))

\* SpecCatalog: the catalog from empty; Install, Start, Stop and Delete calls,
\* one at a time.
InitCatalog ==
    /\ all = {}
    /\ dirs = {}
    /\ nextUUID = 1
    /\ method = [u \in UUIDs |-> "native"]
    /\ FreshLife(CatalogThreads, MaxCatalogCalls)
    /\ EmptyEnv
    /\ EmptyProxy
    /\ EmptyRepo
    /\ EmptyService
    /\ EmptyPorts
    /\ AdapterBuilt
    /\ ScanDone
    /\ EmptySettings

NextCatalog ==
    \/ \E proto, useDocker, fetched, loaded \in BOOLEAN : Install(proto, useDocker, fetched, loaded)
    \/ \E t \in Threads, u \in UUIDs : Delete(t, u)
    \/ \E t \in Threads : Delete_dockerDeleteContainer(t)
    \/ \E t \in Threads : Delete_IsRunning(t)
    \/ \E t \in Threads : Delete_remove(t)
    \/ \E t \in Threads : Delete_unregister(t)
    \/ \E t \in Threads, u \in UUIDs : Start(t, u)
    \/ \E t \in Threads, u \in UUIDs : Stop(t, u)
    \/ \E t \in Threads : setStatus_write(t)
    \/ \E t \in Threads : setStatus_publish(t)
    \/ \E t \in Threads : startManually_stat(t)
    \/ \E t \in Threads : startManually_cmd(t)
    \/ \E t \in Threads : startManually_start(t)
    \/ \E t \in Threads : stopManually_signal(t)
    \/ \E t \in Threads : stopManually_clear(t)
    \/ \E t \in Threads : stopWithDocker_getID(t)
    \/ \E t \in Threads : stopWithDocker_ContainerStop(t)
    \/ \E t \in Threads : startWithDocker_init(t)
    \/ \E t \in Threads : startWithDocker_ImageBuild(t)
    \/ \E t \in Threads : startWithDocker_getID(t)
    \/ \E t \in Threads : startWithDocker_ContainerCreate(t)
    \/ \E t \in Threads : startWithDocker_ContainerStart(t)
    \/ \E c \in Cmds : reaper_read(c)
    \/ \E c \in Cmds : reaper_wait(c)
    \/ \E c \in Cmds : reaper_setStatus(c)
    \/ \E c \in Cmds : reaper_publish(c)
    \/ \E c \in Cmds : ProcessExit(c)

SpecCatalog == InitCatalog /\ [][NextCatalog]_vars

\* SpecEnv: the .env file of one container, absent or written by hand at
\* first, under SaveEnv, LoadEnv and the instantiation of the container.
InitEnv ==
    /\ all = {}
    /\ dirs = {}
    /\ nextUUID = 1
    /\ method = [u \in UUIDs |-> "native"]
    /\ FreshLife(SequentialThreads, 0)
    /\ envFile \in {NoFile, HandWrittenEnv}
    /\ Entries = EmptyMap
    /\ envErr = FALSE
    /\ envHist = "init"
    /\ saved = EmptyMap
    /\ EmptyProxy
    /\ EmptyRepo
    /\ EmptyService
    /\ EmptyPorts
    /\ AdapterBuilt
    /\ ScanDone
    /\ EmptySettings

NextEnv ==
    \/ \E m \in EnvMaps : \E p \in Orders(m) : SaveEnv(m, p)
    \/ \E fresh \in BOOLEAN : LoadEnv(fresh)
    \/ \E ok \in BOOLEAN : Instantiate(1, ok)

SpecEnv == InitEnv /\ [][NextEnv]_vars

\* SpecProxy: the redirect table, empty at first, under concurrent AddRedirect
\* and RemoveRedirect calls.
InitProxy ==
    /\ all = {}
    /\ dirs = {}
    /\ nextUUID = 1
    /\ method = [u \in UUIDs |-> "native"]
    /\ FreshLife(SequentialThreads, 0)
    /\ EmptyEnv
    /\ redirects = <<>>
    /\ redirectsFile = NoFile
    /\ rlocks = 0
    /\ pthr = [t \in 1..ProxyThreads |-> IdleProxyThread]
    /\ pcalls = MaxProxyCalls
    /\ EmptyRepo
    /\ EmptyService
    /\ EmptyPorts
    /\ AdapterBuilt
    /\ ScanDone
    /\ EmptySettings

NextProxy ==
    \/ \E t \in 1..ProxyThreads, id \in RedirectIDs, r \in ProxyRedirect : AddRedirect(t, id, r)
    \/ \E t \in 1..ProxyThreads, id \in RedirectIDs : RemoveRedirect(t, id)
    \/ \E t \in 1..ProxyThreads : write_MarshalIndent(t)
    \/ \E t \in 1..ProxyThreads : write_WriteFile(t)
    \/ \E t \in 1..ProxyThreads : GetRedirects(t)
    \/ \E t \in 1..ProxyThreads : GetRedirects_range(t)

SpecProxy == InitProxy /\ [][NextProxy]_vars

\* SpecProxyStartup: the start of the reverse proxy on any redirects.json of up
\* to MaxMembers members, well-formed or not, present or not.
InitProxyStartup ==
    /\ all = {}
    /\ dirs = {}
    /\ nextUUID = 1
    /\ method = [u \in UUIDs |-> "native"]
    /\ FreshLife(SequentialThreads, 0)
    /\ EmptyEnv
    /\ redirects = <<>>
    /\ redirectsFile \in RedirectsFiles
    /\ rlocks = 0
    /\ pthr = [t \in 1..ProxyThreads |-> IdleProxyThread]
    /\ pcalls = 0
    /\ EmptyRepo
    /\ EmptyService
    /\ EmptyPorts
    /\ fileState \in {"missing", "unreadable", "present"}
    /\ fileState # "present" => redirectsFile = <<>>
    /\ adapter = FALSE
    /\ logged = FALSE
    /\ ScanDone
    /\ EmptySettings

NextProxyStartup ==
    \/ NewProxyFSAdapter
    \/ ProxyExit

SpecProxyStartup == InitProxyStartup /\ [][NextProxyStartup]_vars

\* SpecScan: the repository's startup scan of any storage root of up to
\* MaxEntries entries.
InitScan ==
    /\ all = {}
    /\ dirs = {}
    /\ nextUUID = 1
    /\ method = [u \in UUIDs |-> "native"]
    /\ FreshLife(SequentialThreads, 0)
    /\ EmptyEnv
    /\ EmptyProxy
    /\ EmptyRepo
    /\ EmptyService
    /\ EmptyPorts
    /\ AdapterBuilt
    /\ root \in {"readable", "unreadable"}
    /\ entries \in Listings
    /\ scanPos = 0
    /\ aborted = FALSE
    /\ EmptySettings

NextScan ==
    \/ reload_ReadDir
    \/ reload_entry

SpecScan == InitScan /\ [][NextScan]_vars

\* SpecSettings: the setters called one after the other on a container with
\* default settings and no settings file yet; each persist succeeds or fails.
InitSettings ==
    /\ all = {}
    /\ dirs = {}
    /\ nextUUID = 1
    /\ method = [u \in UUIDs |-> "native"]
    /\ FreshLife(SequentialThreads, 0)
    /\ EmptyEnv
    /\ EmptyProxy
    /\ EmptyRepo
    /\ EmptyService
    /\ EmptyPorts
    /\ AdapterBuilt
    /\ ScanDone
    /\ EmptySettings

NextSettings ==
    \/ \E v \in LaunchValues, ok \in BOOLEAN : SetLaunchOnStartup(v, ok)
    \/ \E v \in DisplayNames, ok \in BOOLEAN : SetDisplayName(v, ok)
    \/ \E v \in DatabaseValues, ok \in BOOLEAN : SetDatabases(v, ok)
    \/ \E v \in VersionValues, ok \in BOOLEAN : SetVersion(v, ok)
    \/ \E v \in TagValues, ok \in BOOLEAN : SetTags(v, ok)

SpecSettings == InitSettings /\ [][NextSettings]_vars

\* SpecRepository: the instance repository with every directory on disk and
\* nothing loaded yet, one channel registered, under concurrent Set, Load and
\* Delete calls.
InitRepository ==
    /\ all = {}
    /\ dirs = {}
    /\ nextUUID = 1
    /\ method = [u \in UUIDs |-> "native"]
    /\ FreshLife(SequentialThreads, 0)
    /\ EmptyEnv
    /\ EmptyProxy
    /\ instances = <<>>
    /\ rdirs = UUIDs
    /\ listeners = {1}
    /\ stopped = {}
    /\ got = [l \in ListenerIDs |-> <<>>]
    /\ observed = {}
    /\ rthr = [t \in 1..RepoThreads |-> IdleRepoThread]
    /\ rcalls = MaxRepoCalls
    /\ ver = [u \in UUIDs |-> 0]
    /\ serial = 0
    /\ EmptyService
    /\ EmptyPorts
    /\ AdapterBuilt
    /\ ScanDone
    /\ EmptySettings

NextRepository ==
    \/ \E t \in DOMAIN rthr, u \in UUIDs, c \in InstanceValues : Repository_Set(t, u, c)
    \/ \E t \in DOMAIN rthr, u \in UUIDs, c \in InstanceValues : Load(t, u, c)
    \/ \E t \in DOMAIN rthr : Load_Set(t)
    \/ \E t \in DOMAIN rthr : Set_assign(t)
    \/ \E t \in DOMAIN rthr, l \in ListenerIDs : notifyListeners_send(t, l)
    \/ \E t \in DOMAIN rthr, l \in ListenerIDs : notifyListeners_skip(t, l)
    \/ \E t \in DOMAIN rthr : notifyListeners_return(t)
    \/ \E t \in DOMAIN rthr, u \in UUIDs : Repository_Delete(t, u)
    \/ \E t \in DOMAIN rthr : Delete_delete(t)
    \/ \E l \in ListenerIDs : AddListener(l)
    \/ \E l \in ListenerIDs : RemoveListener(l)
    \/ \E l \in ListenerIDs : SubscriberStops(l)

SpecRepository == InitRepository /\ [][NextRepository]_vars

\* The steps of the repository call thread t is in.
RepositoryStep(t) ==
    \/ Load_Set(t)
    \/ Set_assign(t)
    \/ \E l \in ListenerIDs : notifyListeners_send(t, l)
    \/ \E l \in ListenerIDs : notifyListeners_skip(t, l)
    \/ notifyListeners_return(t)
    \/ Delete_delete(t)

\* FairRepository: SpecRepository under fair scheduling of the calls in
\* progress.  Nothing is assumed of the subscribers.
FairRepository ==
    /\ SpecRepository
    /\ \A t \in 1..RepoThreads : WF_vars(RepositoryStep(t))

\* SpecService: one container with any installed manifest, persisted, under
\* Update and CheckForUpdate.
InitService ==
    /\ all = {}
    /\ dirs = {}
    /\ nextUUID = 1
    /\ method = [u \in UUIDs |-> "native"]
    /\ FreshLife(SequentialThreads, 0)
    /\ EmptyEnv
    /\ EmptyProxy
    /\ EmptyRepo
    /\ cService \in {sv \in Services : sv.Version <= MaxSupportedVersion}
    /\ available = FALSE
    /\ serviceFile = Yaml(cService)
    /\ lastCall = NoCall
    /\ EmptyPorts
    /\ AdapterBuilt
    /\ ScanDone
    /\ EmptySettings

NextService ==
    \/ \E service \in Services, ok \in BOOLEAN, file \in {Yaml(sv) : sv \in Services}
                                                      \cup {serviceFile, PartialFile} :
          Update(service, ok, file)
    \/ \E latest \in Services : CheckForUpdate(latest)

SpecService == InitService /\ [][NextService]_vars

\* SpecPorts: the Docker runner's Start on any manifest of up to MaxPorts
\* advertised ports and MaxDefinitions env definitions, with any env values.
InitPorts ==
    /\ all = {}
    /\ dirs = {}
    /\ nextUUID = 1
    /\ method = [u \in UUIDs |-> "runner"]
    /\ FreshLife(SequentialThreads, 0)
    /\ EmptyEnv
    /\ EmptyProxy
    /\ EmptyRepo
    /\ EmptyService
    /\ dockerPorts \in SeqsUpTo(AdvertisedPorts, MaxPorts)
    /\ envDefinitions \in SeqsUpTo(EnvDefinition, MaxDefinitions)
    /\ envVariables \in [EnvNames -> HostPorts]
    /\ portSpecs = NotComputed
    /\ AdapterBuilt
    /\ ScanDone
    /\ EmptySettings

NextPorts ==
    \/ Start_ports
    \/ Start_return

SpecPorts == InitPorts /\ [][NextPorts]_vars

\* ================================================================= claims

\* C1: once an Install or Delete call has completed, with success or with an
\* error, the registry holds a uuid if and only if the directory <root>/<uuid>/
\* exists on disk.
C1_CatalogMatchesDisk ==
    \A u \in UUIDs :
        (\A t \in Threads : ~(thr[t].op = "Delete" /\ thr[t].u = u /\ ~Free(t)))
            => (u \in all <=> u \in dirs)

\* C2: a Start call made while the status is building, starting, running or
\* stopping is rejected: its only step returns an error and leaves the status,
\* the process handle, the processes, the Docker container and the published
\* events as they were.
C2_BusyStartRejected ==
    [][\A t \in Threads :
          (thr[t].op = "Start" /\ ~Free(t) /\ thr[t].entry # "none"
             /\ ~StartAllowed(thr[t].entry) /\ thr'[t] # thr[t])
          => (/\ thr'[t].res = "err"
              /\ UNCHANGED <<Status, cmd, procs, docker, events, reaper>>)]_vars

\* C3: a Stop call made while the status is off or building is rejected: its
\* only step returns an error (no panic on a nil handle), sends no signal,
\* issues no ContainerStop, publishes no event and leaves the status as it was.
C3_IdleStopRejected ==
    [][\A t \in Threads :
          (thr[t].op = "Stop" /\ ~Free(t) /\ thr[t].entry # "none"
             /\ ~StopAllowed(thr[t].entry) /\ thr'[t] # thr[t])
          => (/\ thr'[t].res = "err"
              /\ UNCHANGED <<Status, cmd, procs, docker, events, reaper>>)]_vars

\* C4: once a Stop accepted by the state machine has been called, the status of
\* the container becomes off in the end (unless a later Start is accepted
\* first, or the program has died), and having become off it stays off until a
\* later Start is accepted.
C4_StopDrivesOff ==
    /\ \A u \in UUIDs :
          sinceStop[u] ~> (Status[u] = StatusOff \/ ~sinceStop[u] \/ crashed)
    /\ [][\A u \in UUIDs :
            (sinceStop[u] /\ Status[u] = StatusOff /\ sinceStop'[u])
                => Status'[u] = StatusOff]_vars

\* C5: after a Stop was accepted, no status event running is published for the
\* container until a later Start is accepted.
C5_NoRunningAfterStop ==
    \A u \in UUIDs : \A i \in 1..Len(events[u]) :
        ~(events[u][i].status = "running" /\ events[u][i].afterStop)

\* The edges of the lifecycle state machine.
LifecycleEdge(a, b) ==
    \/ a = "off" /\ b = "building"
    \/ a = "building" /\ b = "starting"
    \/ a = "starting" /\ b = "running"
    \/ a \in {"building", "starting"} /\ b = "error"
    \/ a = "running" /\ b = "stopping"
    \/ a = "stopping" /\ b = "off"
    \/ a = "running" /\ b = "off"
    \/ a = "error" /\ b = "building"

\* C6: the status events published for a container, starting from off, form a
\* path of the lifecycle state machine.
C6_EventsFollowStateMachine ==
    \A u \in UUIDs : \A i \in 1..Len(events[u]) :
        LifecycleEdge(IF i = 1 THEN "off" ELSE events[u][i - 1].status, events[u][i].status)

\* A started runtime: a spawned OS process behind the handle, or a started
\* Docker container.
Started(u) ==
    IF method[u] = "native"
    THEN cmd[u] # nil /\ procs[cmd[u]] \in {"alive", "signalled", "exited"}
    ELSE docker[u] = "running"

\* C7: a container whose status is running has a started runtime.
C7_RunningHasRuntime ==
    \A u \in all : Status[u] = StatusRunning => Started(u)

\* C8: when the Docker runner's Start returns an error, the status is error.
C8_RunnerFailureSetsError ==
    \A t \in Threads :
        (thr[t].op = "Start" /\ thr[t].pc = "end" /\ thr[t].entry # "none"
           /\ method[thr[t].u] = "runner" /\ thr[t].res = "err")
        => thr[t].rstatus = "error"

\* The live processes spawned for container u.
LiveProcesses(u) == {c \in Cmds : procs[c] = "alive" /\ reaper[c].u = u}

\* C9: a container has at most one live process, and its handle refers to it.
C9_OneRuntime ==
    \A u \in UUIDs :
        /\ Cardinality(LiveProcesses(u)) <= 1
        /\ \A c \in LiveProcesses(u) : cmd[u] = c

\* Neither "=" nor a newline occurs in the text.
Plain(s) == \A i \in 1..Len(s) : s[i] \notin {EQ, LF}

PlainMap(m) == \A k \in DOMAIN m : Plain(k) /\ Plain(m[k])

\* C10: a map whose keys and values hold no "=" and no newline, saved to the
\* .env and then loaded into an instance with empty env, comes back exactly.
C10_EnvRoundTrip ==
    (envHist = "roundtrip" /\ PlainMap(saved)) => (~envErr /\ Entries = saved)

\* C11: SaveEnv truncates and writes: right after a save the .env holds
\* exactly one KEY=VALUE line per entry of the saved map, in some order, and
\* nothing left from earlier saves.
C11_SaveTruncates ==
    envHist = "saved" => \E p \in Orders(saved) : envFile = WriteEntries(saved, p)

\* C12: no two redirects of the table have the same source host: adding a
\* redirect whose source another id already uses replaces that entry.
C12_RedirectSourcesUnique ==
    \A i, j \in DOMAIN redirects :
        i # j => redirects[i].Source # redirects[j].Source

\* C13: Delete (uninstall) of a container that is running under Docker
\* succeeds: when it returns, the registry no longer holds the uuid, the
\* directory is gone and no Docker container of it is left running.
C13_UninstallRunningDocker ==
    \A t \in Threads :
        (thr[t].op = "Delete" /\ thr[t].pc = "end"
           /\ thr[t].entry = StatusRunning /\ thr[t].dentry = "running")
        => (/\ thr[t].res = "ok"
            /\ thr[t].u \notin all
            /\ thr[t].u \notin dirs
            /\ docker[thr[t].u] # "running")

\* The step in which thread t's Set reads Exists(uuid): the call of Set
\* itself, or the call Load makes.
SetChecks(t) ==
    \/ RepoFree(t) /\ rthr'[t].op = "Set" /\ rthr'[t] # rthr[t]
    \/ rthr[t].pc = "Load_Set" /\ rthr'[t] # rthr[t]

\* C14: Set of a uuid the registry holds returns an error and changes nothing:
\* the map is as before, no change event is sent, no observer is registered.
\* Hence a Set never replaces an entry that was there when it was called: an
\* entry it replaces was written, by an overlapping call, after its check.
C14_SetRejectsDuplicate ==
    /\ [][\A t \in DOMAIN rthr :
            (SetChecks(t) /\ Exists(rthr'[t].u))
            => (/\ rthr'[t].pc = "end"
                /\ rthr'[t].res = "err"
                /\ UNCHANGED <<instances, got, observed, listeners>>)]_vars
    /\ [][\A t \in DOMAIN rthr :
            (rthr[t].pc = "Set_assign" /\ rthr'[t] # rthr[t] /\ Exists(rthr[t].u))
            => ver[rthr[t].u] > rthr[t].myver]_vars

\* A Set of a uuid the registry still holds has returned its error.
C14_Witness ==
    \E t \in DOMAIN rthr :
        /\ rthr[t].op = "Set" /\ rthr[t].pc = "end" /\ rthr[t].res = "err"
        /\ rthr[t].existed /\ Exists(rthr[t].u)
        /\ instances[rthr[t].u] # rthr[t].c

\* The subscriber of channel l received the event of call number n.
GotEventOf(l, n) == \E i \in 1..Len(got[l]) : got[l][i].serial = n

\* C15: every successful Set and Delete of the registry sends a change event
\* to every registered listener, and when a listener receives the event the
\* mutation already shows in the registry (unless a later mutation of the same
\* uuid has replaced it).
C15_ChangeEventAfterMutation ==
    /\ \A t \in DOMAIN rthr :
          (rthr[t].pc = "end" /\ rthr[t].res = "ok")
          => \A l \in rthr[t].targets : GotEventOf(l, rthr[t].serial)
    /\ \A l \in ListenerIDs : \A i \in 1..Len(got[l]) :
          got[l][i].Name = EventChange /\ got[l][i].visible

\* A Delete has succeeded after a Set, and a listener received both events.
C15_Witness ==
    \E t \in DOMAIN rthr : \E l \in rthr[t].targets :
        /\ rthr[t].op = "Delete" /\ rthr[t].pc = "end" /\ rthr[t].res = "ok"
        /\ rthr[t].existed
        /\ Len(got[l]) >= 2
        /\ GotEventOf(l, rthr[t].serial)

\* C16: publishing never blocks the producer: a repository call that has
\* started returns in the end, whatever the subscribers do.
C16_PublishNeverBlocks ==
    \A t \in 1..RepoThreads : (~RepoFree(t)) ~> RepoFree(t)

\* C17: Update with a manifest of a version above MaxSupportedVersion returns
\* success and leaves the container's service and the persisted manifest as
\* they were; with a version up to MaxSupportedVersion it sets the container's
\* service to the manifest and, when it returns success, has persisted it.
C17_UpdateVersionGate ==
    lastCall.op = "Update" =>
        IF lastCall.arg.Version > MaxSupportedVersion
        THEN /\ lastCall.res = "ok"
             /\ cService = lastCall.before
             /\ serviceFile = lastCall.fileBefore
        ELSE /\ cService = lastCall.arg
             /\ lastCall.res = "ok" => serviceFile = Yaml(lastCall.arg)

\* An Update with an unsupported version, of a manifest other than the
\* container's, has returned.
C17_Witness ==
    /\ lastCall.op = "Update"
    /\ lastCall.arg.Version > MaxSupportedVersion
    /\ lastCall.arg # lastCall.before
    /\ serviceFile # NoFile

\* Some line of the file has no "=".
Malformed(file) ==
    file # NoFile /\ \E i \in 1..Len(ScanLines(file)) : Len(Split(ScanLines(file)[i])) < 2

\* C18: with a line without "=" in the .env, the load returns an error and the
\* container is still instantiated: it is in the registry, with empty env.
C18_MalformedEnvTolerated ==
    (envHist = "instantiated" /\ Malformed(envFile))
        => (envErr /\ 1 \in all /\ Entries = EmptyMap)

\* C19: the Docker runner's Delete succeeds when the Docker container is
\* already absent, so the uninstall of a Docker container never started is not
\* stopped by it: no Delete ends with the container-not-found error.
C19_DockerDeleteIdempotent ==
    \A t \in Threads :
        (thr[t].op = "Delete" /\ thr[t].pc = "end") => thr[t].res # "notfound"

\* The bindings the pairing rule gives: for each advertised port, the first
\* env definition of type port whose default is the container-side port binds
\* the value of its variable, as host port, to that port.
RECURSIVE ExpectedBindings(_, _, _)
ExpectedBindings(ports, defs, env) ==
    IF ports = <<>> THEN {}
    ELSE LET out == Head(ports)
             i == FirstPairing(defs, Before(out, SLASH), 1)
         IN  (IF i = 0 THEN {}
              ELSE {[host |-> env[defs[i].Name], port |-> Before(out, SLASH),
                     proto |-> IF IndexFrom(out, SLASH, 1) = 0 THEN <<"t">>
                               ELSE After(out, SLASH)]})
             \cup ExpectedBindings(Tail(ports), defs, env)

\* C20: the port bindings the Docker runner computes are exactly those of the
\* pairing rule; a port with no pairing gets no binding.
C20_PortBindings ==
    portSpecs # NotComputed
        => ParsePortSpecs(portSpecs)
             = ExpectedBindings(dockerPorts, envDefinitions, envVariables)

\* C21: GetRedirects returns a snapshot: what its caller reads from the
\* returned value is the content of the map when GetRedirects returned, whatever
\* AddRedirect or RemoveRedirect did since.
C21_GetRedirectsSnapshot ==
    \A t \in 1..ProxyThreads :
        (pthr[t].op = "GetRedirects" /\ pthr[t].pc = "end") => pthr[t].seen = pthr[t].ret

\* C22: the host lookup follows the mutations: right after AddRedirect(id,
\* redirect) the lookup of redirect.Source returns a redirect with the target
\* just added, and right after RemoveRedirect(id) of the only entry with a
\* source the lookup of that source returns nothing.
C22_HostLookup ==
    /\ [][\A t \in 1..ProxyThreads, id \in RedirectIDs, r \in ProxyRedirect :
            AddRedirect(t, id, r)
                => /\ GetRedirectByHost(r.Source)' # {}
                   /\ \A x \in GetRedirectByHost(r.Source)' : x.Target = r.Target]_vars
    /\ [][\A t \in 1..ProxyThreads, id \in DOMAIN redirects :
            (/\ RemoveRedirect(t, id)
             /\ \A j \in DOMAIN redirects \ {id} : redirects[j].Source # redirects[id].Source)
                => GetRedirectByHost(redirects[id].Source)' = {}]_vars

\* The file is there and cannot be decoded.
Undecodable(file) == \E i \in 1..Len(file) : file[i] = Garbage \/ file[i].Target = JSONNumber

\* C23: when redirects.json is missing or cannot be decoded, the adapter built
\* at startup has an empty map, and a decode failure is logged.
C23_StartupEmptyOnBadFile ==
    adapter =>
        /\ (fileState = "missing" \/ Undecodable(redirectsFile)) => redirects = <<>>
        /\ (fileState = "present" /\ Undecodable(redirectsFile)) => logged

\* An entry the scan must load: a directory or symlink whose name is a uuid
\* and whose manifest and metadata load.
WellFormed(entry) == isInstance(entry) /\ Parse(entry.name) # nil /\ entry.loadable

\* C24: the startup scan aborts the process only when the storage root cannot
\* be read, and when it is over every well-formed entry is in the registry.
C24_ScanToleratesBadEntries ==
    /\ aborted => root # "readable"
    /\ (~aborted /\ scanPos > Len(entries))
          => \A i \in 1..Len(entries) :
                WellFormed(entries[i]) => Exists(Parse(entries[i].name))

\* C25: after CheckForUpdate(container, latest) the update is flagged available
\* exactly when latest differs from the container's manifest, the manifest and
\* its file are as before and the call succeeded; the call changes nothing
\* else of the container.
C25_CheckForUpdateFlag ==
    /\ [](lastCall.op = "CheckForUpdate"
            => /\ available = (lastCall.arg # lastCall.before)
               /\ cService = lastCall.before
               /\ serviceFile = lastCall.fileBefore
               /\ lastCall.res = "ok")
    /\ [][(lastCall'.op = "CheckForUpdate" /\ lastCall' # lastCall)
            => UNCHANGED <<cService, serviceFile, notService>>]_vars

\* A check that found an update of the same version, after one that found none.
C25_Witness ==
    /\ lastCall.op = "CheckForUpdate"
    /\ available
    /\ lastCall.arg.Version = lastCall.before.Version

\* C26: whenever a status other than running is published right after running
\* was, the container's process handle is nil already and its Docker container
\* no longer runs.
C26_HandleReleasedBeforeOff ==
    [][\A u \in UUIDs :
          (/\ Len(events'[u]) = Len(events[u]) + 1
           /\ Len(events[u]) > 0
           /\ events[u][Len(events[u])].status = StatusRunning
           /\ events'[u][Len(events'[u])].status # StatusRunning)
              => (cmd[u] = nil /\ docker[u] # "running")]_vars

\* The calls and reaper status writes in progress on container u.
InProgress(u) ==
    Cardinality({t \in Threads : ~Free(t) /\ thr[t].u = u})
    + Cardinality({c \in DOMAIN reaper : reaper[c].pc = "publish" /\ reaper[c].u = u})

\* C27: the state-changing operations on one container exclude each other: at
\* most one of Start, Stop, Uninstall and the reaper's status write is in
\* progress on a container at any time.
C27_PerContainerMutex == \A u \in UUIDs : InProgress(u) <= 1

\* No call is in progress and no reaper has a status write left to do.
Quiescent ==
    /\ ~crashed
    /\ \A t \in Threads : Free(t)
    /\ \A c \in DOMAIN reaper : reaper[c].pc \in {"none", "done"}

\* C28: the status events of a container are published in the order of the
\* status writes: once every call and every reaper is through, the last status
\* event published for a container is the container's Status.
C28_LastEventIsStatus ==
    Quiescent =>
        \A u \in UUIDs :
            events[u] # <<>> => events[u][Len(events[u])].status = Status[u]

\* The calls that are inside write(), between taking the lock and the end of
\* os.WriteFile.
Writing == {t \in 1..ProxyThreads : pthr[t].pc = "WriteFile"}

\* C29: redirects.json is written under the write lock: no two writes of the
\* file are in progress at the same time.
C29_WritesExclusive == Cardinality(Writing) <= 1

\* The settings a setter call leaves in memory: those before it with the one
\* field set.
AfterSetter(call) ==
    IF call.op = "SetLaunchOnStartup" THEN [call.before EXCEPT !.LaunchOnStartup = call.arg]
    ELSE IF call.op = "SetDisplayName" THEN [call.before EXCEPT !.DisplayName = call.arg]
    ELSE IF call.op = "SetDatabases" THEN [call.before EXCEPT !.Databases = call.arg]
    ELSE IF call.op = "SetVersion" THEN [call.before EXCEPT !.Version = call.arg]
    ELSE [call.before EXCEPT !.Tags = call.arg]

\* C30: after a setter the in-memory settings are those before it with the
\* new value, whether or not persisting succeeded; after a setter that
\* returned success the persisted document is the document of the in-memory
\* settings, the fields set by earlier setters included.
C30_SetterPersistsWholeDocument ==
    lastSet.op # "none"
        => /\ settings = AfterSetter(lastSet)
           /\ lastSet.res = "ok" => settingsFile = MarshalSettings(settings)

\* A setter succeeded after an earlier setter, whose persist had failed, set
\* another field: the document has both fields.
C30_Witness ==
    /\ lastSet.op = "SetTags"
    /\ lastSet.res = "ok"
    /\ lastSet.arg = "tag"
    /\ lastSet.before.DisplayName = "name"
    /\ lastSet.before.Tags = "none"
    /\ settingsFile = MarshalSettings(settings)

\* Thread t moves from pc p to another pc.
Leaves(t, p) == thr[t].pc = p /\ thr'[t].pc # p

\* C31: the Docker runner is about to create the container only when Docker
\* has none of that name, and goes from the lookup to ContainerStart when it
\* has one; a container comes to exist only out of absence and by that create,
\* and never ceases to exist under Start and Stop, so at most one is ever
\* created; a failed build ends the call, and create and ContainerStart are
\* reached only through the lookup.
C31_CreateOnlyIfAbsent ==
    /\ [](\A t \in Threads :
            thr[t].pc = "runner_createContainer" => docker[thr[t].u] = "absent")
    /\ [][\A t \in Threads :
            /\ (Leaves(t, "runner_getID") /\ thr'[t].pc # "end")
                  => thr'[t].pc = IF docker[thr[t].u] = "absent"
                                  THEN "runner_createContainer"
                                  ELSE "runner_ContainerStart"
            /\ Leaves(t, "runner_build")
                  => (thr'[t].pc = "runner_getID"
                      \/ (thr'[t].pc = "end" /\ thr'[t].res = "err"))
            /\ (thr'[t].pc = "runner_createContainer" /\ thr[t].pc # thr'[t].pc)
                  => thr[t].pc = "runner_getID"
            /\ (thr'[t].pc = "runner_ContainerStart" /\ thr[t].pc # thr'[t].pc)
                  => thr[t].pc \in {"runner_getID", "runner_createContainer"}]_vars
    /\ [][\A u \in UUIDs :
            method[u] = "runner" =>
               /\ (docker[u] = "absent" /\ docker'[u] # "absent")
                     => (/\ docker'[u] = "created"
                         /\ \E t \in Threads :
                               thr[t].pc = "runner_createContainer" /\ thr[t].u = u)
               /\ docker[u] # "absent" => docker'[u] # "absent"]_vars

\* The process container u owns is alive.
OwnsLiveProcess(u) == cmd[u] # nil /\ procs[cmd[u]] = "alive"

\* Container u was started, stopped by Stop and started again: the events
\* published for it are running, off, running.
Restarted(u) ==
    /\ Len(events[u]) = 3
    /\ events[u][1].status = StatusRunning
    /\ events[u][2].status = StatusOff
    /\ events[u][2].afterStop
    /\ events[u][3].status = StatusRunning

\* C32: after Stop followed by a new Start of a native container, the exit
\* reaper does not write status off while the container owns a live process:
\* the late exit of the stopped process leaves the status of the new one alone.
C32_ReaperOffIsCurrent ==
    [][\A c \in Cmds :
          (/\ reaper[c].pc = "setStatus"
           /\ reaper'[c].pc = "publish"
           /\ Restarted(reaper[c].u))
              => ~OwnsLiveProcess(reaper[c].u)]_vars

\* Every call has returned, the last call of each thread with success.
AllReturned ==
    /\ pcalls = 0
    /\ \A t \in 1..ProxyThreads : pthr[t].pc = "end" /\ pthr[t].res = "ok"

\* C33: once all concurrently issued AddRedirect and RemoveRedirect calls have
\* returned with success, redirects.json holds the in-memory map.
C33_FileMatchesMap ==
    (AllReturned /\ \A t \in 1..ProxyThreads : pthr[t].op \in {"AddRedirect", "RemoveRedirect"})
        => redirectsFile = MarshalIndent(redirects)

\* Two calls that were in progress together have returned, and the map has
\* the entries of both.
C33_Witness ==
    /\ AllReturned
    /\ \A t \in 1..ProxyThreads : pthr[t].op = "AddRedirect"
    /\ Cardinality(DOMAIN redirects) = 2
    /\ redirectsFile = MarshalIndent(redirects)

\* C34: every Stop of an installed container returns to its caller, with the
\* runner's error if there was one, leaving status off with an off event
\* published last; a native stop that failed keeps the process handle, one
\* that succeeded has cleared it.
C34_StopAlwaysOff ==
    \A t \in Threads :
        (thr[t].op = "Stop" /\ thr[t].pc = "end" /\ thr[t].entry # "none")
            => LET u == thr[t].u IN
               /\ thr[t].res \in {"ok", "err"}
               /\ thr[t].rstatus = StatusOff
               /\ events[u] # <<>>
               /\ events[u][Len(events[u])].status = StatusOff
               /\ method[u] = "native" => (thr[t].res = "ok" <=> cmd[u] = nil)

\* C35: a native Start that does not find the executable returns an error
\* and has touched nothing: from the call to the return the status, the
\* published events, the processes, the reaper goroutines and the process
\* handle are as they were.
C35_MissingExecutableNoEffect ==
    [][\A t \in Threads :
          /\ (Free(t) /\ thr'[t].pc = "startManually_stat")
                => UNCHANGED <<Status, events, cmd, procs, reaper, docker>>
          /\ Leaves(t, "startManually_stat")
                => \/ thr'[t].pc = "startManually_cmd"
                   \/ /\ thr'[t].pc = "end"
                      /\ thr'[t].res = "err"
                      /\ UNCHANGED <<Status, events, cmd, procs, reaper, docker>>]_vars

\* A Start of a native container returned an error, nothing published and no
\* handle made.
C35_Witness ==
    \E t \in Threads :
        /\ thr[t].op = "Start"
        /\ thr[t].pc = "end"
        /\ thr[t].res = "err"
        /\ thr[t].entry = StatusOff
        /\ method[thr[t].u] = "native"
        /\ events[thr[t].u] = <<>>
        /\ cmd[thr[t].u] = nil

\* The events of call number n that the subscriber of channel l received.
EventsOf(l, n) == {i \in 1..Len(got[l]) : got[l][i].serial = n}

\* C36: a registry Delete whose directory removal fails returns an error with
\* the map as it was and sends no event; one that succeeds has removed the
\* directory before it drops the entry, and when it returns each listener it
\* published to has received exactly one event of it, and no channel more.
C36_DeleteAllOrNothing ==
    /\ [](\A t \in 1..RepoThreads :
            rthr[t].op = "Delete" =>
               /\ (rthr[t].pc = "end" /\ rthr[t].res = "err")
                     => \A l \in ListenerIDs : EventsOf(l, rthr[t].serial) = {}
               /\ rthr[t].pc = "Delete_delete" => rthr[t].u \notin rdirs
               /\ (rthr[t].pc = "end" /\ rthr[t].res = "ok")
                     => /\ rthr[t].u \notin rdirs
                        /\ \A l \in rthr[t].targets :
                              Cardinality(EventsOf(l, rthr[t].serial)) = 1
                        /\ \A l \in ListenerIDs :
                              Cardinality(EventsOf(l, rthr[t].serial)) <= 1)
    /\ [][\A t \in 1..RepoThreads :
            (RepoFree(t) /\ rthr'[t].op = "Delete" /\ rthr'[t] # rthr[t])
               => /\ UNCHANGED <<instances, got>>
                  /\ rthr'[t].pc = "end" => (rthr'[t].res = "err" /\ UNCHANGED rdirs)]_vars

\* A Delete of a registered container returned with success after it had
\* published its one event.
C36_Witness ==
    \E t \in 1..RepoThreads :
        /\ rthr[t].op = "Delete" /\ rthr[t].pc = "end" /\ rthr[t].res = "ok"
        /\ rthr[t].existed
        /\ rthr[t].targets # {}
        /\ ~Exists(rthr[t].u)

====
